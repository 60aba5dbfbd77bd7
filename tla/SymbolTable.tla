---------------------------- MODULE SymbolTable ----------------------------
(***************************************************************************)
(* A namespace of symtab.c: scopes that are kept when they are popped and  *)
(* used again, cleaned only when a symbol is added; symbols that stay in   *)
(* the list of the namespace; the table of functions, which sees through   *)
(* scopes; and the rules of sym_add about declaring a name again, with     *)
(* what init_declarator does to the symbol it gets back.                   *)
(***************************************************************************)
EXTENDS Integers, SequencesExt

CONSTANTS
    Names,       \* identifiers
    Types,       \* types
    Incomplete,  \* the one of `f()' or `a[]'
    Follows,     \* what comes behind a declarator: ";", ",", or "=" and "{"
    MaxDepth,    \* nesting of scopes (bound)
    MaxSymbols   \* symbols in the list (bound)

ASSUME FollowsAssumption == Follows \subseteq {";", ",", "body"}
ASSUME BoundsAssumption == MaxDepth \in Nat \ {0} /\ MaxSymbols \in Nat

Ids == 1 .. MaxSymbols
Empty == [x \in Names |-> 0]

\* What a declaration says: declaration() derives symtype and linkage from the
\* storage class and the depth, init_declarator corrects them for functions.
Specs(depth) ==
    {s \in [fn : BOOLEAN, type : Types,
            symtype : {"tentative", "declaration", "definition", "typedef"},
            linkage : {"none", "intern", "extern"}, follow : Follows] :
        /\ \/ s.fn /\ s.symtype = "declaration" /\ s.linkage = "extern"
           \/ s.fn /\ s.symtype = "declaration" /\ s.linkage = "intern" /\ depth = 0
           \/ ~ s.fn /\ s.symtype = "declaration" /\ s.linkage = "extern"
           \/ ~ s.fn /\ s.symtype = "tentative" /\ s.linkage = "intern"
           \/ ~ s.fn /\ s.symtype = "tentative" /\ s.linkage = "extern" /\ depth = 0
           \/ ~ s.fn /\ s.symtype = "definition" /\ s.linkage = "none" /\ depth > 0
           \/ ~ s.fn /\ s.symtype = "typedef" /\ s.linkage = "none"
        /\ s.follow = "body" => s.type # Incomplete /\ s.symtype # "typedef"
        /\ s.follow = "body" /\ s.fn => depth = 0
        /\ s.symtype = "definition" => s.type # Incomplete}

VARIABLES
    scope,      \* ns->scope, the popped ones up to max_scope_depth included
    len,        \* array_len(&ns->scope)
    symbol,     \* ns->symbol
    functions,  \* the table of functions
    failed      \* a declaration was refused: the compiler exits

vars == <<scope, len, symbol, functions, failed>>

Init ==
    /\ scope = <<>> /\ len = 0 /\ symbol = <<>> /\ functions = Empty
    /\ failed = FALSE

---------------------------------------------------------------------------
(* Scopes.                                                                 *)

\* push_scope: the first one of all is that of the translation unit.
push_scope ==
    /\ len < MaxDepth /\ ~ failed
    /\ len' = len + 1
    /\ scope' = IF len < Len(scope)
                THEN [scope EXCEPT ![len + 1].state =
                                   IF @ = "initialized" THEN "dirty" ELSE @]
                ELSE Append(scope, [state |-> "created", table |-> Empty])
    /\ UNCHANGED <<symbol, functions, failed>>

\* pop_scope, not the last one.
pop_scope ==
    /\ len > 1 /\ ~ failed
    /\ len' = len - 1
    /\ UNCHANGED <<scope, symbol, functions, failed>>

\* Mutant: the table of functions outlives the symbols.
pop_last_scope_keeps_functions ==
    /\ len = 1 /\ ~ failed
    /\ scope' = <<>> /\ len' = 0 /\ symbol' = <<>> /\ functions' = functions
    /\ UNCHANGED failed

\* pop_scope of the translation unit frees everything (symtab_reset_buffers).
pop_last_scope ==
    /\ len = 1 /\ ~ failed
    /\ scope' = <<>> /\ len' = 0 /\ symbol' = <<>> /\ functions' = Empty
    /\ UNCHANGED failed

\* The bindings of a scope as far as sym_lookup looks at them.
Bindings(sc) == IF sc.state = "initialized" THEN sc.table ELSE Empty

\* sym_lookup
sym_lookup(x) ==
    LET D == {i \in 1 .. len : Bindings(scope[i])[x] # 0}
    IN  IF D = {} THEN 0 ELSE Bindings(scope[Max(D)])[x]

\* Mutant: a dirty scope is not cleared.
sym_make_visible_dirty(x, id) ==
    [scope EXCEPT ![len] =
        [state |-> "initialized",
         table |-> IF @.table[x] # 0 THEN @.table ELSE [@.table EXCEPT ![x] = id]]]

\* sym_make_visible: hash_init or hash_clear first, then hash_insert, which
\* keeps what is there.
sym_make_visible(x, id) ==
    LET t == Bindings(scope[len])
    IN  [scope EXCEPT ![len] = [state |-> "initialized",
                                table |-> IF t[x] # 0 THEN t ELSE [t EXCEPT ![x] = id]]]

---------------------------------------------------------------------------
(* Declaring a name.                                                       *)

current_scope_depth == len - 1

\* sym_apply_type on a symbol of type t: the types agree, or one of them is
\* incomplete.
Compatible(sym, s) == sym.fn = s.fn /\ (sym.type = s.type \/ Incomplete \in {sym.type, s.type})
Applied(sym, s) == [sym EXCEPT !.type = IF @ = Incomplete THEN s.type ELSE @]

\* DECL_FUNCBODY, judged by the token behind the declarator.
FuncBody(s) == s.fn /\ s.follow # ";"

\* The linkage s asks for clashes with the one sym has.
LinkageClash(sym, s) ==
    \/ s.linkage = "intern" /\ sym.linkage = "extern"
    \/ s.linkage = "extern" /\ sym.linkage = "intern" /\ s.symtype = "tentative"

\* Mutant: a function may get another body.
TypeClashNoBody(sym, s) ==
    IF s.symtype = "typedef"
    THEN sym.symtype # "typedef" \/ sym.fn # s.fn \/ sym.type # s.type
    ELSE IF sym.symtype = "definition"
    THEN sym.fn # s.fn \/ sym.type # s.type
    ELSE ~ Compatible(sym, s)

\* The second half of sym_redeclare refuses s.
TypeClash(sym, s) ==
    IF s.symtype = "typedef"
    THEN sym.symtype # "typedef" \/ sym.fn # s.fn \/ sym.type # s.type
    ELSE IF sym.symtype = "definition"
    THEN sym.fn # s.fn \/ sym.type # s.type \/ FuncBody(s)
    ELSE ~ Compatible(sym, s)

\* What sym_redeclare makes of sym.
Redeclared(sym, s) ==
    [(IF s.symtype = "typedef" \/ sym.symtype = "definition" THEN sym ELSE Applied(sym, s))
        EXCEPT !.linkage = IF s.linkage = "intern" THEN "intern" ELSE @,
               !.symtype = IF s.symtype = "tentative" /\ @ = "declaration" THEN "tentative" ELSE @]

\* An initializer is refused for this symbol.
InitializerClash(sym, s) ==
    /\ s.follow = "body" /\ ~ s.fn
    /\ sym.symtype = "declaration" \/ (sym.depth = 0 /\ sym.symtype = "definition")

\* The symbol after the initializer or the function body that follows.
Completed(sym, s) ==
    IF s.follow = "body" THEN [sym EXCEPT !.symtype = "definition", !.bodies = @ + 1] ELSE sym

\* The compiler reports an error and exits.
Fail ==
    /\ failed' = TRUE
    /\ UNCHANGED <<scope, len, symbol, functions>>

\* The symbol id becomes sym, unless its initializer is refused.
Update(s, id, sym) ==
    IF InitializerClash(sym, s) THEN Fail
    ELSE /\ symbol' = [symbol EXCEPT ![id] = Completed(sym, s)]
         /\ UNCHANGED <<len, functions, failed>>

\* sym_add meets a function that is not visible, but known.
sym_add_function(x, s) ==
    LET id == functions[x] IN
    /\ len > 0 /\ ~ failed
    /\ sym_lookup(x) = 0 /\ s.fn /\ id # 0
    /\ IF ~ Compatible(symbol[id], s) THEN Fail
       ELSE /\ scope' = sym_make_visible(x, id)
            /\ Update(s, id,
                      [Applied(symbol[id], s) EXCEPT
                          !.depth = IF current_scope_depth < @ THEN current_scope_depth ELSE @])

\* Mutant: a declaration in file scope always makes a new symbol.
RedeclaresExternOnly(x, s) ==
    sym_lookup(x) # 0 /\ symbol[sym_lookup(x)].depth = 0 /\ current_scope_depth > 0
        /\ s.linkage = "extern"

\* The declaration is about the symbol of file scope that is visible.
Redeclares(x, s) ==
    /\ sym_lookup(x) # 0 /\ symbol[sym_lookup(x)].depth = 0
    /\ current_scope_depth = 0 \/ s.linkage = "extern"

\* sym_add resolves to an existing symbol.
sym_redeclare(x, s) ==
    LET id == sym_lookup(x) IN
    /\ len > 0 /\ ~ failed /\ Redeclares(x, s)
    /\ IF LinkageClash(symbol[id], s) \/ TypeClash(symbol[id], s) THEN Fail
       ELSE Update(s, id, Redeclared(symbol[id], s)) /\ scope' = scope

\* sym_add makes a new symbol.
sym_add(x, s) ==
    LET id == Len(symbol) + 1
        sym == [name |-> x, fn |-> s.fn, type |-> s.type, symtype |-> s.symtype,
                linkage |-> s.linkage, depth |-> current_scope_depth, bodies |-> 0]
    IN  /\ len > 0 /\ ~ failed /\ ~ Redeclares(x, s)
        /\ ~ (sym_lookup(x) = 0 /\ s.fn /\ functions[x] # 0)
        /\ Len(symbol) < MaxSymbols
        /\ IF InitializerClash(sym, s) THEN Fail
           ELSE /\ symbol' = Append(symbol, Completed(sym, s))
                /\ scope' = sym_make_visible(x, id)
                /\ functions' = IF s.fn /\ functions[x] = 0
                                THEN [functions EXCEPT ![x] = id] ELSE functions
                /\ UNCHANGED <<len, failed>>

\* The compiler has exited.
Exited == failed /\ UNCHANGED vars

Next ==
    \/ push_scope \/ pop_scope \/ pop_last_scope
    \/ \E x \in Names : \E s \in Specs(current_scope_depth) :
          sym_add_function(x, s) \/ sym_redeclare(x, s) \/ sym_add(x, s)
    \/ Exited

Spec == Init /\ [][Next]_vars

---------------------------------------------------------------------------
(* Properties.                                                             *)

\* What can be found, by a lookup or in the table of functions, is a symbol of
\* that name that has not been freed: nothing survives the translation unit.
FoundIsLive ==
    \A x \in Names : \A id \in {sym_lookup(x), functions[x]} \ {0} :
        id <= Len(symbol) /\ symbol[id].name = x

\* In file scope a name has one symbol, whatever was declared in blocks before.
OneSymbolInFileScope ==
    \A i, j \in 1 .. Len(symbol) :
        symbol[i].name = symbol[j].name /\ symbol[i].depth = 0 /\ symbol[j].depth = 0 => i = j

\* A symbol gets an initializer or a body at most once.
DefinedOnce == \A i \in 1 .. Len(symbol) : symbol[i].bodies <= 1

\* The scopes that the namespace really keeps, with those it has popped, are
\* seen as the stack of ScopeStack.
Visible == INSTANCE ScopeStack WITH env <- [i \in 1 .. len |-> Bindings(scope[i])]

\* Delayed initialization and reuse of scopes cannot be noticed: a new scope
\* is always empty, popping one uncovers the bindings of the outer ones, and
\* the first symbol of a name in a scope is the one that is found.
ScopesAreAStack == Visible!Spec
===========================================================================
