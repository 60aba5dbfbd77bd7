# Specifications of kcs

kcs is a C compiler: a preprocessor and a recursive descent parser produce an
intermediate representation (IR), an optional optimizer rewrites it, and back
ends turn it into byte code for a virtual machine, machine code in memory (JIT),
assembler text, ELF objects or graphs. This directory holds TLA+ models of the
parts of the compiler whose correctness depends on long sequences of operations
on shared state, the TLC runs that check them, and TLAPS proofs.

## 1. The system

| Component | State | Operations | Works with |
|---|---|---|---|
| Input, tokenizer (`preprocessor/input.c`, `tokenize.c`) | stack of sources, line buffer | get a line, include, scan a token | directives |
| Directives, macros (`directive.c`, `macro.c`, `preprocess.c`) | stack of conditionals, macro table, expansion stack, lookahead queue | define, undef, if/elif/else/endif, expand, peek, next | parser calls peek/next; hash tables |
| Symbol table (`parser/symtab.c`) | per namespace a list of symbols and a stack of scopes; table of functions | push/pop scope, lookup, add, redeclare, make visible | declarations, hash tables |
| Declarations, initializers, types (`declaration.c`, `initializer.c`, `typetree.c`) | types; the definition being filled | declarator, init_declarator, initializer | symbol table, definitions |
| Expressions (`expression.c`, `eval.c`) | current block | build three-address code, fold constants | blocks |
| Statements (`statement.c`) | break/continue targets, switch context | build the flow graph; lower switch | blocks |
| Definitions and blocks (`parse.c`) | queue of definitions, pools of definitions and blocks | cfg_init, cfg_define, cfg_discard, parse | driver, all of the parser |
| Optimizer (`optimizer/`) | block list, symbol numbers, liveness sets | serialize, forward jumps, liveness, dead stores, merging | driver |
| Back ends (`backend/`) | label tables, code, stack machine | compile, declare, flush, run | driver |
| Hash tables (`util/hash.c`) | buckets, chains, free nodes | insert, lookup, remove, clear, destroy | symbols, strings, macros |
| Driver (`kcsmain.c`) | options, list of files | process_file, run | everything |

The compiler is one thread and persists nothing, so there are no races and no
crash recovery. What is hard is (a) *reuse*: blocks, definitions, scopes and
hash nodes are recycled instead of freed, and something of the earlier use can
remain; (b) *order*: definitions nest, and are queued before they are complete;
strings are joined across lines, directives and files;
(c) *iteration to a fixed point* in the optimizer; (d) *several lowerings of the
same construct* that must agree, with arithmetic at the edge of `int`; (e) *long
legal sequences* of declarations of one name and of nested directives; (f) *text
cut by the end of a buffer* or by the end of a line inside of a macro call;
(g) *code that is emitted in another order than it runs*: the blocks of a loop,
the two sides of a branch, operands that are exchanged and loads that are left
out because of what was emitted before. `PROJECT.json` lists these hazards with
the lines where they bite.

What makes each modelled component correct:

* switch: every value of the expression reaches the label C asks for, through
  whichever lowering; a table jump stays inside the table.
* definitions and blocks: no block in two places, none lost; definitions come
  out complete and in order; what is taken from a pool is unused and reset.
* optimizer: the body means the same afterwards; the iteration ends; the
  analysis is a solution of its equations when it is used.
* symbol table: what the reuse of scopes makes of the namespace is a plain
  stack of scopes; one symbol per name in file scope, defined at most once.
* hash tables: a map, whatever collides and is removed.
* preprocessor: the parser gets the tokens C asks for, however it peeks, and
  errors are found where they are and nowhere else.
* input: the lines and their numbers do not depend on how the file is cut.
* macros: the tokens of an expansion are those C asks for, whatever line a call
  begins and ends in; expansion ends.
* statements and branching expressions: the blocks make the calls of the function
  in C's order and return what it returns; errors are reported for the functions
  C refuses.
* back ends: the emitted code does what the blocks do, and the stack of the
  virtual machine is what its frame says after every statement and call.

## 2. Modules

| Module | Models | Kind |
|---|---|---|
| `SwitchLowering` | `statement.c` 312-564, 628-656; `VM_JMPTBL` | component |
| `DefinitionPool` | `parse.c`, the loops in `declaration()` and `process_file()` | component |
| `IR` | `ir.h` and what the back ends make of it | semantics |
| `Optimizer` | `optimize.c`, `liveness.c`, `transform.c`; extends `IR` | component |
| `ScopeStack` | what a namespace promises | abstract |
| `SymbolTable` | `symtab.c`, the parts of `declaration.c` that decide about symbols | component, implements `ScopeStack` |
| `HashMap` | what a hash table promises | abstract |
| `HashTable` | `util/hash.c` | component, implements `HashMap` |
| `LineInput` | `input.c` 256-561: the buffer and the lines in it | component |
| `Preprocessor` | `preprocess.c`, `directive.c` 69-94 and 566-812, the sources of `input.c`, the table of `macro.c` | component |
| `PrepExpression` | `directive.c` 96-554: conditions | algorithm |
| `PrepReference` | what C asks of directives and conditions | reference |
| `MacroExpansion` | `macro.c`, `preprocess.c` 77-420 and 600-640, `#define` and `#undef` of `directive.c` | component |
| `MacroReference` | what C asks of macros; extends `MacroExpansion` | reference |
| `StatementFlow` | `statement.c`, the branching operators of `expression.c` and `eval.c`, labels | component |
| `FlowReference` | C's order of evaluation over the tree of a function | reference |
| `FlowExecution` | parser, blocks and reference side by side | composition |
| `BlockEmission` | `compile_block` of `compile.c`, `vm_gen_node`, the labels and jumps of `vminstr.c` | component |
| `CodeLayout` | what jumps decide after a comparison, and when code is a layout of a flow graph | properties |
| `EmissionMeaning` | what blocks and linear code mean | reference |
| `VMCode` | the statements of `vminstr.c`, the machine of `vmrunlir.c` | component |
| `VMMeaning` | what the statements mean | reference |
| `MC...` | instances for TLC; `MCLineInput` has the reference for lines | |
| `SwitchLowering_proofs`, `DefinitionPool_proofs`, `SymbolTable_proofs`, `HashTable_proofs`, `Optimizer_proofs`, `Preprocessor_proofs`, `BlockEmission_proofs` | theorems | proofs |
| `StackLemmas` | facts about sequences and sets of numbers for these | proofs |

Definitions that start with a comment "Mutant:" are deliberately wrong forms of
the definition behind them. They are used to see that a property can fail and
are not part of any specification.

### SwitchLowering

`body` is what the parser still has to read, a list of case values and perhaps
`Default`, and `unsigned` the type of the expression; `Switches` are the ones to
try. `CaseLabel` and `DefaultLabel` are the branches of `statement()`,
`EndBody` is the rest of `switch_statement()` and the choice in
`link_switch_context`. `SortCase` is one turn of the insertion sort,
`ChooseLowering` the decision of `use_jump_table_for_switch_case`, `FillTable`
one turn of the loop that fills the table. The blocks that are built are not
stored: a location (`at`) names a block by the arguments it was built from, and
`LinearCompare`, `BsearchCompare`, `BsearchLeft`, `CompareLow`, `CompareHigh`
and `JumpTable` run it with the value `x`. Case values are kept as given;
`ToInt` is the truncation where the code assigns to `int`, `Conv` the usual
conversion to the type of the expression; `int` is `-Half .. Half - 1`.
`SwitchesAssumption` says which switches are meant: the cases are different and
`int`s, and the differences the code computes do not overflow (`NoOverflow`),
neither those between neighbours nor, for a jump table, the one between the least
and the greatest case. A chain of comparisons computes none.

### DefinitionPool

`pool` maps the two static lists and each definition to a list of blocks;
`content` says which parts of a block differ from a new one (not its liveness,
which the optimizer sets before it reads it). One action per
call: `BeginDefinition` (`cfg_init`), `NewBlock`, `NewExpressionBlock`
(`cfg_block_init`), `Define` (`cfg_define`), `EndDefinition` (the end of a
declarator, with `cfg_discard`), and the steps of `parse()`, the driver and
`parse_finalize()`. `open` is the C stack of nested declarations. An end of
file may come at any time between declarations, and another file may follow.

### IR and Optimizer

`IR` defines operands (direct, address, dereferenced, immediate, bit-fields and
accesses to a part of an object), statements (assignment, expression, argument)
and blocks, and what running a body means: `Outcome` gives the calls that were
made with the memory the callee can see, the globals and the return value;
`SameMeaning` compares two bodies on all inputs on which the first is defined
and ends. Values have two halves so that a partial write differs from a whole
one. The operators cast, xor and call stand for all: the optimizer only asks
whether there is a second operand and whether there are side effects.

`Optimizer` walks through `optimize()`: recursion of `serialize_basic_blocks`
is an explicit stack (`Visit`), each traversal handles one block a step
(`Forward`/`NextBranch`/`SkipDone`, `Enumerate`, `Analyse`, `Eliminate`,
`Merge`). `in` starts as anything a new or recycled block can have.

### SymbolTable, ScopeStack

`scope` holds the scopes with their state (created, dirty, initialized), also
the popped ones, `len` the number that is in use. `Specs` are the declarations
that `declaration()` and `init_declarator()` can produce at a depth. `sym_add`
is split by its branches: `sym_add_function`, `sym_redeclare`, `sym_add`. An
error ends the compiler (`Fail`, `Exited`).

### HashTable, HashMap

The first entry of a bucket lies in `slot`, the others in `chain`; `free` is
the list behind the last bucket. Each operation is one action for each way it
can go. `Hash` is a constant: djb2 only has to be a function of the key.

### LineInput

`buffer` holds the characters up to `read`, `after` the one behind them, which
is where a missing newline is put. `Fill` is one `fread` with everything up to
the call of `read_line`, `NoMore` the two ways to return at the end. `read_line`
is an operator on what is left in the buffer; `Deliver`, `BadLiteral`, `Grow`
and `Shift` are its four outcomes. The reference first joins continued lines and
then runs an automaton over the characters of the whole file.

### Preprocessor, PrepExpression, PrepReference

The parser calls `next` and `peekn` in any order (`TakeToken`, `Fill`); when the
buffer is too short, `preprocess_line` reads lines, and each line is one action:
text, a line in a dead block, one for each directive, the end of an included
file and the end of the input. A line is a record with the parts its directive
has. `source` is `source_stack`, `branch` is `branch_stack`, `stale` the static
flag of `getprepline`. Macros stand for one token here; how calls are replaced is
the subject of `MacroExpansion`. A condition is computed by the
constant operator `Holds`, which the run takes from `PrepExpression`: the
recursive descent parser with its precedence, its conversions between signed and
unsigned numbers of `Width` bits, and its errors.

`PrepReference` has no stacks: a condition is cut at the operator that is applied
last, a group is replaced by its first section whose condition holds, an include
by the file. It shares the arithmetic of single operators with `PrepExpression`,
not their grouping.

### MacroExpansion, MacroReference

A program is a list of lines, each `#define`, `#undef` or text. `ReadToken`,
`ReadOpen`, `ReadArg` and `ReadPragma` are the turns of the loops in
`read_complete_line`, `read_macro_invocation` and `read_Pragma_invocation`;
`line` is the array they fill. `stack` holds the calls of `expand_line`: a frame
has the tokens, the position, the names being replaced (`scope`) and, between
`Invoke` and `ReturnBody`, the state of `expand_macro` (`CopyToken`,
`StringifyToken`, `PasteToken`, `PasteEnd`, `ReturnArg`). `RefillToken` to
`RefillEnd` are `refill_expanding_line` with `skip_or_get_token`. A spelling is a
sequence of pieces, so that `##` and `#` are what they do. The phase `wild` is
reading arguments outside of the array. `MacroReference` has neither lines nor
calls: tokens carry the set of names they must not be replaced by.

### StatementFlow, FlowReference, FlowExecution

`stack` is the C stack of the recursive descent: a frame is a function that
waits, with its place and the locals it still needs, and an action is what
happens between two calls. `cur` is the block that is passed from function to
function, `def` the blocks and temporaries made so far, `targets` the static
break and continue targets, `ctx` the switch context, `labels` the namespace of
labels with the tentative symbols of `goto`. Operands are calls, constants and
calls whose result is assigned: what the parser distinguishes is whether a value
is at hand and whether it has effects. `FlowReference` walks over the tree of the
function without blocks. In `FlowExecution` the text of a tree is parsed, and
then the blocks and the reference run beside each other and get the same results
for their calls.

### BlockEmission, CodeLayout, EmissionMeaning

`work` is the C stack of `compile_block` or `vm_gen_node`, `color` the colors of
the blocks, `code` what is emitted; the target is chosen in the initial state.
`EnterBlock` and `EmitCode` are common to both back ends, `EmitBranch` with
`BranchCode` and `compile_compare` is native, `EmitVMBranch`, `EmitVMNext`,
`Resolve` (labels become distances) and `OptimizeJump` (`jump_optimization`,
one turn of its loops a step) belong to the virtual machine. What the statements
of a block do is left out; a comparison has an outcome for signed, unsigned and
real operands, and native jumps test flags.

There are two statements of what the code has to be. `LaidOut` of `CodeLayout` is
local: behind each instruction control comes to what the graph has there, by
falling through, by a jump or by the jumps that the flags decide (`Follows`). It
needs no execution and holds for graphs of every kind, so that it can be proved.
`EmittedAsBuilt` of `EmissionMeaning` runs graph and code beside each other, and
also covers the instructions of the virtual machine after their labels were
removed and their jumps shortened.

### VMCode, VMMeaning

Generation takes one statement a step and looks at the last instruction as the
code does (`emit_vm_load`, `emit_vm_pop`, `emit_vm_fill_zero`,
`is_swap_available`, `emit_vm_pop_args`); then the machine runs one instruction
a step on one array of cells with globals, frames and operands. A cell has two
bits; a char is one cell, an int two, a long or pointer four, which is a slot.
The statements are those the front end makes: a temporary is set once and loaded
directly at most once (`emit_vm_load` relies on it), more often only as a
pointer. `VMMeaning` has a place for each symbol and no stack. The addresses of
the lowest slot are null: the machine exits when a pointer to it is followed
(`RunNull`, the macro `NULLCHK`; objects are read without that check), and
`CodeAsWritten` asks for this exit where the statements follow a null pointer and
nowhere else.

## 3. Runs

Runs that pass:

| Run | Checks | Bounds |
|---|---|---|
| `switch` | `NoWildJump`, `CaseReachesItsLabel`, `ExactWithoutSearch`, `DispatchEnds` | `int` of 4 bits (`Half = 8`), threshold 3 instead of 16, up to 6 cases with every pattern of gaps up to the threshold, fewer ones also at both ends of the range, 4 least values, 3 orders, default first, last or absent, signed and unsigned, all values of the expression |
| `pool` | `TypeOK`, `BlocksOwnedOnce`, `NoBlockLost`, `PooledAreUnused`, `HandedOutIsComplete`, `FreeBlocksReset`, `EmittedInOrder`, `EveryDefinitionCompiled` | 3 blocks, 3 definitions, 4 declarators, nesting 2 |
| `optimizer` | `ReachableListed`, `DataflowSolved`, `Equivalent`, `Terminates` | all straight bodies of up to 4 of 8 plain statements, of up to 3 of 8 behind `p = &x`, and of up to 3 of 8 that use 6 symbols with a limit of 5; diamonds and loops with up to 2 statements in a block and an empty block |
| `symtab` | `FoundIsLive`, `OneSymbolInFileScope`, `DefinedOnce`, `ScopesAreAStack` | two names, a complete and an incomplete type, three scopes, two symbols |
| `hash` | `NodesOwnedOnce`, `IsAMap` | 4 keys in 2 buckets, two with the same hash, two values for one key, 3 nodes |
| `input` | `WithinBuffer`, `LinesAsWritten`, `Finishes` | all files of up to 6 characters over letter (or quote), newline, backslash, slash and star, strings of up to 5; a buffer of 5, which takes 3 characters |
| `preprocessor` | `TypeOK`, `BranchesNest`, `Delivers`, `Ends` | all files of up to 5 of 8 lines with closed groups; files of up to 4 lines with strings and all forms of `#line`; `#ifdef`, `#ifndef` and `#undef` without a name in live and dead groups; up to 3 lines with guarded and nested headers in one or two units; conditions with one, two or three operators, parentheses, unary operators and `?:` on numbers of 4 bits; the parser peeks 1 or 2 tokens |
| `macros` | `ExpandedAsInC`, `LineComplete`, `ExpansionEnds` | 3765 programs: two object-like macros with any replacement of up to 2 tokens; two function-like ones and an object-like one with 7, 3 and 6 replacements under all texts of up to 4 tokens and longer ones over several lines; `#` and `##` with 5 arguments on each side; variable arguments; redefinition; `_Pragma` |
| `flow` | `FlowAsWritten`, `ErrorsAsInC`, `ParsingEnds` | over 2600 functions: every expression of up to three branching operators in six places; eight loops around each way to leave them with a label inside, before or behind; loops and switches in each other; calls return 0 or 2; 60 steps between two calls |
| `emission` | `EmittedAsBuilt`, `LaidOut`, `EmissionEnds` | all graphs of three blocks with 0 to 2 statements; single and nested loops with six and four bodies under all 45 comparisons, both targets, all outcomes |
| `vmcode` | `CodeAsWritten`, `FrameKept` | 3870 programs: all pairs of 60 C statements, and each before eleven returns and branches; 7 functions with calls in calls, objects of two slots, pointers, bit-fields |

The bounds are chosen so that each mechanism meets its limit: more cases than
the chain takes, gaps below and at the threshold; more blocks needed than were
recycled and the other way round; more symbols than liveness has bits; chains of
three; scopes that are used again under and above a symbol; lines longer than
the buffer, cut at every place; strings that end where the parser stops peeking;
calls that begin in one replacement and end in another or two lines later;
branches with neither, one or both sides emitted before; every pair of
statements, since the generator looks one instruction back. 4 bits and a
threshold of 3 keep the relation between range, threshold and number of cases;
cells of two bits keep the relation of the sizes of char, int and slot.

A run in which the code does not do what a comment says (reproduced with the
compiler):

| Run | Property | What happens |
|---|---|---|
| `opt_table` | `Equivalent` | a store read only in branches of a jump table is removed, although the optimizer promises a "semantically equivalent" definition |

### Further deviations

These were met while modelling and seen in compiled programs too. The inputs of
the passing runs stay clear of them, and only of these and the one above.

Switch and statements:

* the shortcut of the binary search sends values above a pair to a case: with
  cases 0, 40, 70, 71, 72 the value 100 takes case 71 (`statement.c` 331-352);
  `ExactWithoutSearch` is about the other lowerings;
* with two to four cases the expression of a switch is evaluated once for each
  case, with none not at all (`statement.c` 516); `MCFlow` switches on assigned
  calls;
* a call as the first or the last expression of a `for` is never made
  (`statement.c` 248, 258, 291); there, too, `MCFlow` has assigned calls;
* `break` and `continue` outside of a loop become a return (611); two equal case
  values are accepted (636);
* a distance of two neighbouring cases above `INT_MAX` wraps, so cases at both
  ends of the range get a jump table (`statement.c` 448); `NoOverflow` excludes
  it;
* unsigned cases above `INT_MAX` are truncated, and a jump can leave the table
  (443-446); an unsigned switch has cases that `int` can hold.

Definitions, symbols:

* a recycled block keeps the entries of a jump table (`parse.c` 71);
  `FreeBlocksReset` is about the other fields;
* after an error the driver leaves blocks of an open definition (`kcsmain.c` 600);
* a second declaration in a block makes a symbol that cannot be found
  (`symtab.c` 463);
* declarations of a function are not compared when a local hides the first one
  (`symtab.c` 452), an array or function that is defined cannot be declared again
  with an incomplete type (374), `int f(int), g(int);` is refused behind the
  body of `f` (`declaration.c` 1033), and a typedef with an initializer becomes a
  variable (1076); these are no properties of a run.

Optimizer:

* `for (;;);` makes it loop forever (`optimize.c` 157-160);
* a store to a local that a callee reads through a global pointer is removed
  (`liveness.c` 121); no statement stores the address of a local in a global;
* writing one byte of a variable counts as writing all of it (`liveness.c` 25);
  parts are read in the run, never written;
* `p = &q; *p = p` loses `p` (`transform.c` 47), and a value read back from a
  bit-field is not cut to its width (`transform.c` 43); neither pair is among
  the statements.

Directives and input:

* `0 | 0 | 1` is taken as `0 | 0` and `1 == 2 == 0` as `1 == (2 == 0)`
  (`directive.c` 457, 387), operands behind `&&`, `||` and `?` are computed even
  if they do not count, so that `0 && 1/0` stops the compiler (477-533), and `!`
  of an unsigned number is unsigned (204); `Once` and `Fallible` in
  `MCPreprocessor` exclude them;
* an included file that ends inside a dead group makes the compiler crash
  (`input.c` 599), an open group at the end of a file is accepted, and it is
  still open in the next file (`preprocess.c` 33); `Closed` excludes both;
* the line number set by `#line` is forgotten after an `#include` (`input.c`
  586); no input has both;
* a comment in the last line of a file without a newline is read beyond the end,
  and the assertion `fn->processed <= fn->read` fails (`input.c` 497); a literal
  with two backslashes at the end of a line and an empty line behind it is joined
  twice (353); `OpenEnd` and `JoinedTwice` in `MCLineInput` exclude them. The
  model reads a zero behind the newline that was put there; the program reads
  what the buffer happens to hold.

Macros (`NameLast`, `ComesBack` and the tokens "apart" of `MacroReference`
exclude the first four):

* the name of a function-like macro at the end of a line is not continued on the
  next one and swallows a directive there (`preprocess.c` 130), although
  260-261 says that arguments may span lines; at the end of the file an assertion
  fails (218);
* arguments are expanded without the names being replaced (`macro.c` 458,
  637-645): `A` as `h(B)`, `B` as `h(A)` and `h(x)` as `x` recurse for ever;
* an expanded line is expanded again (`preprocess.c` 619): `f(x)` as `g E (x)`,
  `g(x)` as `f E (x)` with an empty `E` never ends;
* arguments behind a name that comes out of a replacement are expanded before
  `#`, `##` or the commas are looked at; `f(1,)` is accepted for one parameter
  (`macro.c` 565);
* a replacement with an unclosed call is read beyond its end (506), and so is one
  of two tokens that ends in `##` (372); `x##y##z` with `x` and `y` empty pastes
  onto the token before (384); `#` in an object-like macro is refused (430);
  `macrocmp` compares neither the names of parameters nor whether the last one is
  variable (78); a newline inside a stringified argument leaves no blank. None of
  the inputs has these.

Back ends:

* a branch to the next instruction becomes a no-operation that leaves the
  condition on the stack (`vminstr.c` 1072), and `for (;;);` makes
  `jump_optimization` loop (1060); `IsProper` in `MCEmission` excludes both;
* zeros of a local and of a global at the same offset are merged (541), and
  merged sizes such as 3 or 6 are not filled (`vmrunlir.c` 216-226);
* a pop and load that become a store leave the value as wide as it was, and a
  narrowing cast writes only the low bytes (`vmrunlir.c` 70-127), so that
  `unsigned char u = 255; if (++u)` is taken; `VM_INC` and `VM_DEC` change 32
  bits and `VM_JNZ` looks at 64 (820); `==` on longs and pointers compares 32
  bits (`vminstr.c` 778-791); statements on chars, and comparisons in `MCVMCode`,
  stay clear of these;
* a store of an object takes it from above the top of the stack (`vmrunlir.c`
  207), so `a = b = d` is wrong for structures; `CopiedOn` excludes it;
* signed bit-fields are not extended when loaded (`vminstr.c` 336-350), values
  stored in bit-fields are not masked (424-463), and bit-fields behind a pointer
  overwrite their unit or the pointer (383-422, 479, 866); fields in the run are
  unsigned, named and get values that fit;
* `-0.0` is true (`vmrunlir.c` 403-406) and a negative integer becomes a real by
  way of an unsigned one (96-97, 121-122); there are no reals in `VMCode`.

**Fairness.** The compiler is a single thread that calls nothing that blocks,
so weak fairness of the whole next-state relation (`FairSpec`) says no more than
that it goes on running; in `flow` it is assumed for the parser only, since the
functions themselves may loop. In `pool`, the input is finite, so parsing cannot
go on forever, and `NewBlock` is bounded by the number of blocks.

**Deadlock.** `DefinitionPool`, `SwitchLowering`, `FlowExecution`,
`BlockEmission` and `VMCode` end: all definitions are compiled, the value has
reached its label, the function has returned, the code is complete, the machine
has halted. `DefinitionPool` also stops where a bound on blocks or definitions is
reached. Their runs switch the check off. The other models have an explicit final
step. Where an end is what must be reached, a liveness property says so.

## 4. Proofs

`SwitchLowering_proofs` proves for every width of `int`, every threshold and
every switch that `SwitchesAssumption` allows:

* `NoWild`, `CaseReached`, `ExactChainAndTable` from `SwitchInv`. A property of
  the end of a dispatch says nothing about the blocks before it; the invariant
  says for each location what has been decided there: the list of positions is
  sorted and complete up to the case at hand (`SortedUpTo`), the table has the
  right label for every value from the least case on (`FilledUpTo`), the case with
  value `x`, if there is one, is in the part of the cases that is still searched
  (`Within`), and the index is within the bounds that were tested. `CheckLemma` is
  the heart of it: within the bounds the wrapped index is the distance of `x` from
  the least case, outside of them `x` is no case, also if the least case is
  `INT_MIN`, whose negation wraps. `SpreadLemma` derives that the table is
  narrower than the range of `int` from its gaps.

`DefinitionPool_proofs` proves for any sets of blocks and definitions, any
nesting and any length of input:

* `TypeCorrect`, `BlocksOwned`, `BlocksKept` from the inductive invariant
  `BlocksInv` (types, ownership and completeness together). Ownership alone is
  not inductive: a new block is one that is not *allocated*, which says nothing
  about the lists unless the lists hold every allocated block. The lemmas
  `EmptiedLemma` and `TakenLemma` say what recycling a list and taking a block do
  to the lists, and are all that the actions use.
* `DefinitionsInOrder`, `PooledUnused`, `HandedOutComplete`, `EmittedOrder` from
  `QueueInv`, which adds where each definition can be (open, queued, pooled, with
  the driver) and that open definitions without a symbol and queued ones with a
  symbol are disjoint. Without it a discarded definition could still be queued.
* `RecycledAreReset` from `Reset` together with `BlocksInv`: what is recycled was
  in use by one definition only, so resetting it once is enough.

`SymbolTable_proofs` proves for any names, types and symbols and any depth:

* `FoundLive`, `FileScopeUnique`, `OneDefinition` from `SymbolInv`: whatever a
  scope or the table of functions holds is a symbol of that name, also what is
  left in scopes that are popped or dirty (`LiveInv`); the symbols of depth 0 are
  exactly those that the outermost scope binds, which is never dirty (`FileInv`);
  a symbol with a body is a definition and, if it is a function, one of file scope
  (`BodyInv`). They are inductive together only: that a declaration finds the
  earlier symbol, and so makes no second one and gives no second body, depends on
  what popping a scope leaves behind.
* `ScopesImplementStack`: every step of the namespace, with its scopes that are
  created late, kept when popped and cleared when used again, is a step of
  `ScopeStack` or leaves it alone.

`HashTable_proofs` proves for any number of buckets, nodes, keys and any hash
function:

* `NodesOwned` from `HashInv`, which adds that every node in a list is allocated
  (or a node from `calloc` could be in use already) and that the entries of a
  bucket have different keys and belong there. The chains and the free list are
  treated as one family of lists, and each operation moves one node, or the
  nodes of one chain, between members of it (`MoveToFront`, `MoveToEnd`,
  `MoveAll`). That `hash_clear` moves all chains is an induction over the buckets
  (`ClearedLemma`).
* `TableImplementsMap`: every operation, with removal at the front of a bucket by
  copying the next node, is the operation of `HashMap` or leaves it alone.

`Optimizer_proofs` proves for every flow graph and body:

* `ListComplete` from `ListInv`: the targets of listed blocks are listed or on
  the stack. Forwarding a jump keeps this because the empty block it skips is
  listed itself, so its target is too.
* `FlowSolved` from `FlowInv`: the blocks that were handled in a round without
  change satisfy their equation. A change of one block can invalidate another
  one's equation, which is why the invariant speaks of rounds with
  `changes = 0` only.
* `LiveIsEnough`, `DeadStoreUnseen` and `MergeUnseen`, the steps of `Equivalent`
  for one statement from any memory (`ExecuteShape` says what a statement does to
  a machine). Machines that agree on the globals and on what is live before a
  statement do the same with it and agree on what is live after it; a dead store
  that is removed, or reduced to its call, changes neither a global nor a live
  object nor what a callee is given; nor does merging two assignments. Their
  hypotheses are the limits of the optimizer (section 3, "Optimizer"): no part of
  a scalar is written, the locals a callee can get at are live, the target of a
  merge is not reached through the merged variable and is not wider than the
  bit-field it was read from. Without any of them the statement is false, and the
  source checks none.

`Preprocessor_proofs` proves for every program, every way the conditions turn
out and any depth of groups and includes:

* `TypeCorrect`: no source is read beyond its end;
* `ConditionalsNest`: behind the first entry of the branch stack that is not
  live, all are disabled. Both are inductive together: reading a line never
  touches the branches except through `push_state` and `pop_state`
  (`PushNests`, `FrontNests`), and an entry that is not disabled is pushed only
  in an active block, where by the invariant all entries are live.

`BlockEmission_proofs` proves for every flow graph, of any size, for the native
back end and for the virtual machine:

* `EveryJumpLabelled`, from `LabelInv`: the black blocks are exactly the labelled
  ones, and a block that is jumped to is black or *promised*, that is, a call
  under way will enter it. `JumpsLabelled` alone says nothing while calls are
  under way. The call for the head of a loop promises its first successor before
  the body is emitted, and the call of `vm_gen_node` that waits behind the first
  successor of a branch promises the second. `StepLemma` and `EnterLemma` say
  what a step has to keep; each action then only shows what it emits and which
  calls it leaves.
* `CodeLaidOut`, from `LayoutInv`: the code is a layout of the graph. While calls
  are under way this is false at two places, which the invariant has to name: at
  the end of the code a block may be missing that the running call emits next
  (`Coming`; control may only run off the end if that is where the graph leads),
  and the label that the running call is behind has nothing behind it yet
  (`AtLabel`). That no other label is open needs `FrameInv`: a call that waits
  behind a label is one for the head of a loop, whose jump to the condition is
  already there. `Prolongs` says what a step may do to code that is a layout, and
  `ProlongLemma` that everything emitted before stays right. `BlockStep` and
  `BranchStep` complete a block; that the jumps of a branch decide rightly is
  `UnlessDecides` for reals that may be unordered and `CheckDecides` for the
  others, which rest on `CompareLemma`: after a comparison, with operands
  exchanged or not, the condition code that `compile_compare` chooses holds
  exactly if the comparison does, signed, unsigned and real.

Assumptions are those of the modules: the switches are as above, hash values are
buckets, `NULL` is no definition, the names of the
two static lists are no definitions, the bounds are natural numbers, the body is
a block and jumps go to blocks, files end and the units of a program exist. Of
the flow graphs that are emitted, jumps and table entries lead to blocks, a
branch and the head of a loop have a first successor (for a branch
`compile_block` asserts it), and the head of a loop and the block of a jump table
hold no statements (`IsFlowGraph`): `while_statement`, `for_statement` and
`link_switch_context_jump_table` make these blocks and put nothing into them, and
the optimizer merges no blocks. Without the last one code would be lost, as
`compile_block` emits the jump of a loop head before its statements.

Induction over numbers is possible with `SetInduction` of `StackLemmas`, which
takes the property as a set and rests on `LeastElement`; the induction theorems of
the library take it as an operator, which the provers cannot instantiate.

Only model-checked: equivalence of optimized code (`Equivalent`; proved for one
statement at a time, not for the folds over a block and a run), tokens, lines,
flow graphs, emitted code and macros against their references (`Delivers`,
`LinesAsWritten`, `FlowAsWritten`, `ErrorsAsInC`, `EmittedAsBuilt`,
`CodeAsWritten`, `FrameKept`, `ExpandedAsInC`, `LineComplete`) and `WithinBuffer`.
They rest on what a fold or a recursion computes for every sequence (`Outcome`,
`LiveAfter`, `read_line`, the joining of strings, the value of a condition, what a
text expands to, what a function does), which needs induction over trees and
sequences or recursive operators. Everything about liveness (`DispatchEnds`,
`EveryDefinitionCompiled`, `Terminates`, `Ends`, `Finishes`, `ExpansionEnds`,
`ParsingEnds`, `EmissionEnds`) needs fairness and ENABLED and is out of reach of
the prover.

## 5. Not modelled, and plan

The repository holds about 395000 lines of implementation, of which sqlite3, the
onig regular expressions, zip and other third-party libraries are 350000 and
more; kcs itself is about 26000, a large part of them tables of instructions, the
C library and its headers. The models are about the compiler's own control, and
cover no third-party code.

Not modelled: the tokenizer (no state between tokens), instruction selection and
encoding (right only relative to the processor), file formats, the C runtime and
the bundled libraries (see the notes in `PROJECT.json`). In the modelled parts:
trigraphs and the search for include files, `inject_line` and `-E`, white space
in macros, `__LINE__` and `__FILE__` in replacements, declarations and asm inside
of functions, floating point, division and calls through pointers in the virtual
machine, and loading and saving of its modules.

Plan, in this order:

1. Proofs: `WithinBuffer` of `LineInput`, given what `read_line` returns; that
   `Resolve` and `OptimizeJump` keep the layout.
2. `Initializers` and `Layout`: order and padding of initializers, member and
   bit-field offsets against a reference.
3. Tags and enumeration constants in `SymbolTable`; `yield_declaration`.
4. `ConstantFolding`: `eval.c` at the widths of the types.
