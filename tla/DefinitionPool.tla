-------------------------- MODULE DefinitionPool --------------------------
(***************************************************************************)
(* Who owns which basic block: the pools of parse.c.                       *)
(*                                                                         *)
(* parse() hands one definition at a time to the driver, which optimizes   *)
(* and compiles it; the next call takes its blocks back.  In between,      *)
(* declaration() fetches definitions from the pool `prototypes' (or calloc)*)
(* and blocks from the pool `blocks' (or calloc).  A definition that gets  *)
(* a symbol is queued, possibly long before its body has been parsed; one  *)
(* that does not (a prototype) goes back to the pool.  Definitions nest:   *)
(* static objects and compound literals inside of a function have a        *)
(* definition of their own while the function's is still open.             *)
(***************************************************************************)
EXTENDS Integers, SequencesExt

CONSTANTS
    Blocks,     \* struct block objects
    Defs,       \* struct definition objects
    NULL,       \* no definition
    MaxDepth,   \* nesting of declarations (bound)
    MaxInput    \* declarators in the source text (bound)

ASSUME NullAssumption == NULL \notin Defs
ASSUME PlaceAssumption == {"blocks", "expressions"} \cap Defs = {}
ASSUME BoundAssumption == MaxDepth \in Nat \ {0} /\ MaxInput \in Nat

Places == {"blocks", "expressions"} \cup Defs

\* What a block can hold of an earlier use: the fields that parsing fills in
\* (code, expr, jump, body and the has_* flags), its jump table, and the mark
\* that a traversal has seen it.  The liveness of a block is not among them:
\* the optimizer sets it before it reads it (Enumerated of Optimizer).
Parts == {"ir", "jump_table", "color"}

VARIABLES
    phase,        \* where the driver and parse() are
    input,        \* declarators not read yet
    pool,         \* blocks, expressions, and def->nodes of each definition
    allocated,    \* blocks that calloc has returned
    content,      \* the parts of a block that are not as calloc made them
    open,         \* definitions being parsed, innermost last (the C stack)
    symbol,       \* def->symbol: 0 is NULL, else the number of the symbol
    defined,      \* symbols given to cfg_define so far
    prototypes,   \* definitions free to use
    definitions,  \* the queue of finished definitions
    def           \* the definition parse() returned last

vars == <<phase, input, pool, allocated, content, open, symbol, defined,
          prototypes, definitions, def>>

Init ==
    /\ phase = "driver" /\ input = MaxInput
    /\ pool = [p \in Places |-> <<>>] /\ allocated = {}
    /\ content = [b \in Blocks |-> {}]
    /\ open = <<>> /\ symbol = [d \in Defs |-> 0] /\ defined = 0
    /\ prototypes = <<>> /\ definitions = <<>> /\ def = NULL

---------------------------------------------------------------------------
(* recycle_block, cfg_empty, cfg_block_init and cfg_discard.               *)

\* Mutant: the color of a recycled block is left as it is.
RecycledKeepsColor(s) ==
    [b \in Blocks |-> IF b \in Range(s) THEN content[b] \ {"ir"} ELSE content[b]]

\* The contents after recycle_block on every block of s.
Recycled(s) ==
    [b \in Blocks |-> IF b \in Range(s) THEN content[b] \ {"ir", "color"}
                                        ELSE content[b]]

\* Mutant: the list is emptied but its blocks are not recycled.
EmptiedDropsNodes(P, p) == [P EXCEPT ![p] = <<>>]

\* The pools after the blocks of p have been recycled.
Emptied(P, p) == [P EXCEPT !["blocks"] = @ \o P[p], ![p] = <<>>]

\* The block cfg_block_init returns: the last one recycled, else a new one.
Available(P) == IF P["blocks"] # <<>> THEN {Last(P["blocks"])}
                                      ELSE Blocks \ allocated

\* Mutant: the recycled block is not taken off the pool.
TakenTwice(P, p, b) == [P EXCEPT ![p] = Append(@, b)]

\* The pools after cfg_block_init has returned b, bound to p.
Taken(P, p, b) ==
    IF P["blocks"] # <<>>
    THEN [P EXCEPT !["blocks"] = Front(@), ![p] = Append(@, b)]
    ELSE [P EXCEPT ![p] = Append(@, b)]

\* Mutant: the definition goes back to the pool with its symbol.
DiscardKeepsSymbol(d) ==
    /\ symbol' = symbol
    /\ pool' = Emptied(pool, d)
    /\ content' = Recycled(pool[d])
    /\ prototypes' = Append(prototypes, d)

\* cfg_discard: forget the symbol, recycle the blocks.
Discard(d) ==
    /\ symbol' = [symbol EXCEPT ![d] = 0]
    /\ pool' = Emptied(pool, d)
    /\ content' = Recycled(pool[d])
    /\ prototypes' = Append(prototypes, d)

---------------------------------------------------------------------------
(* declaration() and what it calls.                                        *)

InUse == Range(open) \cup Range(definitions) \cup Range(prototypes) \cup {def}

\* cfg_init: take a definition and bind its first block, the body, to it.
BeginDefinition ==
    /\ phase = "declaration" /\ input > 0 /\ Len(open) < MaxDepth
    /\ \E d \in IF prototypes # <<>> THEN {Last(prototypes)} ELSE Defs \ InUse :
       \E b \in Available(Emptied(pool, d)) :
          /\ pool' = Taken(Emptied(pool, d), d, b)
          /\ allocated' = allocated \cup {b}
          /\ content' = [Recycled(pool[d]) EXCEPT ![b] = @ \cup {"ir"}]
          /\ open' = Append(open, d)
    /\ prototypes' = IF prototypes # <<>> THEN Front(prototypes) ELSE prototypes
    /\ input' = input - 1
    /\ UNCHANGED <<phase, symbol, defined, definitions, def>>

\* cfg_block_init(def): a block of the innermost definition; the jump table
\* of a switch is filled in right after (link_switch_context_jump_table).
NewBlock ==
    /\ phase = "declaration" /\ open # <<>>
    /\ \E b \in Available(pool), filled \in {{"ir"}, {"ir", "jump_table"}} :
          /\ pool' = Taken(pool, Last(open), b)
          /\ allocated' = allocated \cup {b}
          /\ content' = [content EXCEPT ![b] = @ \cup filled]
    /\ UNCHANGED <<phase, input, open, symbol, defined, prototypes, definitions, def>>

\* cfg_block_init(NULL): a block for a constant expression.
NewExpressionBlock ==
    /\ phase = "declaration"
    /\ \E b \in Available(pool) :
          /\ pool' = Taken(pool, "expressions", b)
          /\ allocated' = allocated \cup {b}
          /\ content' = [content EXCEPT ![b] = @ \cup {"ir"}]
    /\ UNCHANGED <<phase, input, open, symbol, defined, prototypes, definitions, def>>

\* Mutant: the definition is put in front of the queue.
DefineInFront ==
    /\ phase = "declaration" /\ open # <<>> /\ symbol[Last(open)] = 0
    /\ defined' = defined + 1
    /\ symbol' = [symbol EXCEPT ![Last(open)] = defined + 1]
    /\ definitions' = <<Last(open)>> \o definitions
    /\ UNCHANGED <<phase, input, pool, allocated, content, open, prototypes, def>>

\* cfg_define: after an initializer, or in front of a function body.
Define ==
    /\ phase = "declaration" /\ open # <<>> /\ symbol[Last(open)] = 0
    /\ defined' = defined + 1
    /\ symbol' = [symbol EXCEPT ![Last(open)] = defined + 1]
    /\ definitions' = Append(definitions, Last(open))
    /\ UNCHANGED <<phase, input, pool, allocated, content, open, prototypes, def>>

\* The declarator ends: a definition without a symbol is discarded.
EndDefinition ==
    /\ phase = "declaration" /\ open # <<>>
    /\ open' = Front(open)
    /\ IF symbol[Last(open)] = 0
       THEN Discard(Last(open))
       ELSE UNCHANGED <<symbol, pool, content, prototypes>>
    /\ UNCHANGED <<phase, input, allocated, defined, definitions, def>>

EndDeclaration ==
    /\ phase = "declaration" /\ open = <<>>
    /\ phase' = "parse"
    /\ UNCHANGED <<input, pool, allocated, content, open, symbol, defined,
                   prototypes, definitions, def>>

---------------------------------------------------------------------------
(* parse() and the driver process_file().                                  *)

\* Mutant: the first call discards a definition although there is none.
ParseDiscardsNull ==
    /\ phase = "driver"
    /\ phase' = "parse"
    /\ IF def # NULL THEN Discard(def)
                     ELSE /\ prototypes' = Append(prototypes, def)
                          /\ UNCHANGED <<symbol, pool, content>>
    /\ UNCHANGED <<input, allocated, open, defined, definitions, def>>

\* The call of parse(): the previous definition is discarded.
Parse ==
    /\ phase = "driver"
    /\ phase' = "parse"
    /\ IF def # NULL THEN Discard(def)
                     ELSE UNCHANGED <<symbol, pool, content, prototypes>>
    /\ UNCHANGED <<input, allocated, open, defined, definitions, def>>

BeginDeclaration ==
    /\ phase = "parse" /\ definitions = <<>> /\ input > 0
    /\ phase' = "declaration"
    /\ UNCHANGED <<input, pool, allocated, content, open, symbol, defined,
                   prototypes, definitions, def>>

\* Mutant: parse() returns while a declaration is still being parsed.
ReturnDefinitionEarly ==
    /\ phase \in {"parse", "declaration"} /\ definitions # <<>>
    /\ def' = Head(definitions)
    /\ definitions' = Tail(definitions)
    /\ phase' = "compile"
    /\ UNCHANGED <<input, pool, allocated, content, open, symbol, defined, prototypes>>

ReturnDefinition ==
    /\ phase = "parse" /\ definitions # <<>>
    /\ def' = Head(definitions)
    /\ definitions' = Tail(definitions)
    /\ phase' = "compile"
    /\ UNCHANGED <<input, pool, allocated, content, open, symbol, defined, prototypes>>

\* Mutant: the end of input is noticed before the queue is looked at.
ReturnNullEarly ==
    /\ phase = "parse"
    /\ pool' = Emptied(pool, "expressions")
    /\ content' = Recycled(pool["expressions"])
    /\ def' = NULL
    /\ phase' = "end"
    /\ UNCHANGED <<input, allocated, open, symbol, defined, prototypes, definitions>>

\* The end of a file: blocks of constant expressions become free.
ReturnNull ==
    /\ phase = "parse" /\ definitions = <<>>
    /\ pool' = Emptied(pool, "expressions")
    /\ content' = Recycled(pool["expressions"])
    /\ def' = NULL
    /\ phase' = "end"
    /\ UNCHANGED <<input, allocated, open, symbol, defined, prototypes, definitions>>

\* optimize() and compile(): the back end colors the blocks it reaches from
\* the body and clears their jump tables once they are emitted.
Compile ==
    /\ phase = "compile"
    /\ \E R \in SUBSET Range(pool[def]) :
          /\ pool[def][1] \in R
          /\ content' = [b \in Blocks |->
                            IF b \in R THEN (content[b] \ {"jump_table"}) \cup {"color"}
                                       ELSE content[b]]
    /\ phase' = "driver"
    /\ UNCHANGED <<input, pool, allocated, open, symbol, defined, prototypes,
                   definitions, def>>

\* Errors have been reported: the driver leaves its loop with this result.
Abort ==
    /\ phase = "compile"
    /\ phase' = "aborted"
    /\ UNCHANGED <<input, pool, allocated, content, open, symbol, defined,
                   prototypes, definitions, def>>

\* The next of several input files.
NextFile ==
    /\ phase = "end" /\ input > 0
    /\ phase' = "driver"
    /\ UNCHANGED <<input, pool, allocated, content, open, symbol, defined,
                   prototypes, definitions, def>>

\* parse_finalize: free the blocks and the definitions in the pools.
Finalize ==
    /\ phase \in {"end", "aborted"}
    /\ phase' = "final"
    /\ pool' = [pool EXCEPT !["blocks"] = <<>>, !["expressions"] = <<>>]
    /\ allocated' = allocated \ (Range(pool["blocks"]) \cup Range(pool["expressions"]))
    /\ prototypes' = <<>>
    /\ UNCHANGED <<input, content, open, symbol, defined, definitions, def>>

Next ==
    \/ BeginDefinition \/ NewBlock \/ NewExpressionBlock \/ Define
    \/ EndDefinition \/ EndDeclaration
    \/ Parse \/ BeginDeclaration \/ ReturnDefinition \/ ReturnNull
    \/ Compile \/ Abort \/ NextFile \/ Finalize

Spec == Init /\ [][Next]_vars

\* The compiler is one thread: it takes steps as long as it can.
FairSpec == Spec /\ WF_vars(Next)

---------------------------------------------------------------------------
(* Properties.                                                             *)

\* The state of the pools; a definition has symbol 0 before cfg_define.
TypeOK ==
    /\ phase \in {"driver", "parse", "declaration", "compile", "end", "aborted", "final"}
    /\ input \in 0 .. MaxInput
    /\ pool \in [Places -> Seq(Blocks)]
    /\ allocated \subseteq Blocks
    /\ content \in [Blocks -> SUBSET Parts]
    /\ open \in Seq(Defs) /\ Len(open) <= MaxDepth
    /\ symbol \in [Defs -> Nat] /\ defined \in Nat
    /\ prototypes \in Seq(Defs) /\ definitions \in Seq(Defs)
    /\ def \in Defs \cup {NULL}

\* No block occurs twice in the lists of P.
Owned(P) ==
    \A p, q \in Places :
        \A i \in 1 .. Len(P[p]), j \in 1 .. Len(P[q]) :
            P[p][i] = P[q][j] => p = q /\ i = j

\* The blocks in the lists of P.
Held(P) == {b \in Blocks : \E p \in Places : \E i \in 1 .. Len(P[p]) : P[p][i] = b}

\* No block is at two places of the lists parse.c keeps, so no definition can
\* be handed a block that another one, or a constant expression, still uses,
\* and parse_finalize frees no block twice.
BlocksOwnedOnce == Owned(pool)

\* Every block calloc returned is in one of the lists until it is freed.
NoBlockLost == allocated = Held(pool)

\* The definitions wait in the order their symbols were given to cfg_define,
\* none is missing and none is there twice.
InOrder ==
    \A i \in 1 .. Len(definitions) :
        symbol[definitions[i]] = defined - Len(definitions) + i

\* Neither the parser nor the driver uses d.
Unused(d) ==
    /\ symbol[d] = 0 /\ pool[d] = <<>>
    /\ phase \in {"compile", "driver"} => d # def
    /\ \A j \in 1 .. Len(open) : open[j] # d
    /\ \A j \in 1 .. Len(definitions) : definitions[j] # d

\* A pooled definition has neither a symbol (the assertion in cfg_init) nor
\* blocks, is pooled once, and neither the parser nor the driver uses it (the
\* static variable of parse() still names it until the next one is found).
PooledAreUnused ==
    /\ \A i \in 1 .. Len(prototypes) : Unused(prototypes[i])
    /\ \A i, j \in 1 .. Len(prototypes) : prototypes[i] = prototypes[j] => i = j

\* What parse() hands out is complete: nothing is being parsed into it any
\* more, it has its symbol and a body, and it is not waiting in the queue.
HandedOutIsComplete ==
    phase = "compile" =>
        /\ def # NULL /\ open = <<>>
        /\ symbol[def] > 0 /\ pool[def] # <<>>
        /\ \A i \in 1 .. Len(definitions) : definitions[i] # def

\* The fields recycle_block resets are as calloc makes them on every block
\* that is free to use: no color of an earlier traversal hides a block.
FreeBlocksReset ==
    \A i \in 1 .. Len(pool["blocks"]) : content[pool["blocks"][i]] \subseteq {"jump_table"}

\* parse() returns the definitions in the order of their symbols, one by one.
EmittedInOrder ==
    [][phase = "parse" /\ phase' = "compile" =>
            symbol[def'] = defined - Len(definitions) + 1]_vars

\* Every definition that cfg_define queued is handed to the back end, unless
\* the driver aborts because of errors.
EveryDefinitionCompiled ==
    definitions # <<>> ~>
        definitions = <<>> \/ (phase \in {"aborted", "final"} /\ def # NULL)
===========================================================================
