------------------------- MODULE SymbolTable_proofs -------------------------
(***************************************************************************)
(* Proofs about SymbolTable: for any names, types and nesting, nothing     *)
(* that is found was freed, a name has one symbol in file scope, a symbol  *)
(* is defined at most once, and the scopes behave as a stack.              *)
(***************************************************************************)
EXTENDS SymbolTable, StackLemmas

Scopes == [state : {"created", "initialized", "dirty"}, table : [Names -> Nat]]
Symbols ==
    [name : Names, fn : BOOLEAN, type : Types,
     symtype : {"tentative", "declaration", "definition", "typedef"},
     linkage : {"none", "intern", "extern"}, depth : Nat, bodies : Nat]

TypeInv ==
    /\ scope \in Seq(Scopes) /\ len \in Nat /\ len <= Len(scope)
    /\ symbol \in Seq(Symbols) /\ Len(symbol) <= MaxSymbols
    /\ functions \in [Names -> Nat]

\* id is a symbol of that name.
IsSymbol(id, x) == id \in 1 .. Len(symbol) /\ symbol[id].name = x

\* Whatever a scope or the table of functions holds is a symbol, also what is
\* left in scopes that are popped or dirty.
LiveInv ==
    /\ \A x \in Names : functions[x] # 0 => IsSymbol(functions[x], x) /\ symbol[functions[x]].fn
    /\ \A i \in 1 .. Len(scope) : \A x \in Names :
          scope[i].table[x] # 0 => IsSymbol(scope[i].table[x], x)

\* The symbols of depth 0 are those that the outermost scope binds.
FileInv ==
    /\ len = 0 => scope = <<>> /\ symbol = <<>>
    /\ \A id \in 1 .. Len(symbol) :
          symbol[id].depth = 0 => Bindings(scope[1])[symbol[id].name] = id
    /\ scope # <<>> =>
          /\ scope[1].state # "dirty"
          /\ \A x \in Names : Bindings(scope[1])[x] # 0 => symbol[Bindings(scope[1])[x]].depth = 0

\* What a symbol that has a body looks like.
OneBody(sym) ==
    sym.bodies <= 1 /\ (sym.bodies > 0 => sym.symtype = "definition" /\ (sym.fn => sym.depth = 0))
BodyInv == \A id \in 1 .. Len(symbol) : OneBody(symbol[id])

SymbolInv == TypeInv /\ LiveInv /\ FileInv /\ BodyInv

---------------------------------------------------------------------------
(* Operators.                                                              *)

\* The bindings of a scope, of which a new one has none.
LEMMA BindingsLemma ==
    ASSUME NEW sc \in Scopes
    PROVE  /\ Empty \in [Names -> Nat] /\ \A x \in Names : Empty[x] = 0
           /\ Bindings(sc) \in [Names -> Nat]
           /\ \A x \in Names : Bindings(sc)[x] # 0 => sc.state = "initialized" /\ Bindings(sc)[x] = sc.table[x]
  <1>1. Empty \in [Names -> Nat] /\ \A x \in Names : Empty[x] = 0
    BY DEF Empty
  <1>2. sc.table \in [Names -> Nat]
    BY DEF Scopes
  <1> QED BY <1>1, <1>2 DEF Bindings

\* A lookup returns a binding of one of the scopes that are open, or 0 if none
\* of them has one.
LEMMA LookupLemma ==
    ASSUME TypeInv, NEW x \in Names
    PROVE  /\ sym_lookup(x) # 0 => \E i \in 1 .. len : sym_lookup(x) = Bindings(scope[i])[x]
           /\ sym_lookup(x) = 0 => \A i \in 1 .. len : Bindings(scope[i])[x] = 0
           /\ len = 1 => sym_lookup(x) = Bindings(scope[1])[x]
  <1> DEFINE D == {i \in 1 .. len : Bindings(scope[i])[x] # 0}
  <1>1. len \in Nat /\ D \in SUBSET (1 .. len)
    BY DEF TypeInv
  <1>2. sym_lookup(x) = IF D = {} THEN 0 ELSE Bindings(scope[Max(D)])[x]
    BY DEF sym_lookup
  <1>3. D # {} => Max(D) \in D
    BY <1>1, MinMax
  <1>4. \A i : i \in D <=> i \in 1 .. len /\ Bindings(scope[i])[x] # 0
    OBVIOUS
  <1> HIDE DEF D
  <1>5. CASE D = {}
    <2>1. sym_lookup(x) = 0 /\ \A i \in 1 .. len : Bindings(scope[i])[x] = 0
      BY <1>2, <1>4, <1>5
    <2>2. len = 1 => 1 \in 1 .. len
      BY <1>1
    <2> QED BY <2>1, <2>2
  <1>6. CASE D # {}
    <2>1. Max(D) \in 1 .. len /\ sym_lookup(x) = Bindings(scope[Max(D)])[x] /\ sym_lookup(x) # 0
      BY <1>2, <1>3, <1>4, <1>6
    <2>2. len = 1 => Max(D) = 1
      BY <1>1, <2>1
    <2> QED BY <2>1, <2>2
  <1> QED BY <1>5, <1>6

\* What sym_make_visible does to the scopes.
LEMMA VisibleLemma ==
    ASSUME TypeInv, len > 0, NEW x \in Names, NEW id \in Nat
    PROVE  LET sc == sym_make_visible(x, id)
               t == Bindings(scope[len])
           IN  /\ sc \in Seq(Scopes) /\ Len(sc) = Len(scope)
               /\ \A i \in 1 .. Len(scope) : i # len => sc[i] = scope[i]
               /\ sc[len].state = "initialized" /\ sc[len].table \in [Names -> Nat]
               /\ Bindings(sc[len]) = sc[len].table
               /\ \A y \in Names : sc[len].table[y] = IF y = x /\ t[x] = 0 THEN id ELSE t[y]
               /\ sc[len].table = IF t[x] # 0 THEN t ELSE [t EXCEPT ![x] = id]
  <1> DEFINE t == Bindings(scope[len])
             u == IF t[x] # 0 THEN t ELSE [t EXCEPT ![x] = id]
             new == [state |-> "initialized", table |-> u]
  <1>1. len \in 1 .. Len(scope) /\ scope \in Seq(Scopes) /\ Len(scope) \in Nat
    BY DEF TypeInv
  <1>2. t \in [Names -> Nat]
    BY <1>1, BindingsLemma
  <1>3. u \in [Names -> Nat] /\ \A y \in Names : u[y] = IF y = x /\ t[x] = 0 THEN id ELSE t[y]
    BY <1>2
  <1>4. sym_make_visible(x, id) = [scope EXCEPT ![len] = new]
    BY DEF sym_make_visible
  <1>5. new \in Scopes /\ new.state = "initialized" /\ new.table = u
    BY <1>3 DEF Scopes
  <1>6. Bindings(new) = u
    BY <1>5 DEF Bindings
  <1> HIDE DEF u, new, t
  <1>7. /\ sym_make_visible(x, id) \in Seq(Scopes)
        /\ Len(sym_make_visible(x, id)) = Len(scope)
        /\ \A j \in 1 .. Len(scope) : sym_make_visible(x, id)[j] = IF j = len THEN new ELSE scope[j]
    BY <1>1, <1>4, <1>5, ExceptSeq
  <1>8. sym_make_visible(x, id)[len] = new
    BY <1>1, <1>7
  <1>9. u = IF t[x] # 0 THEN t ELSE [t EXCEPT ![x] = id]
    BY DEF u
  <1>10. \A j \in 1 .. Len(scope) : j # len => sym_make_visible(x, id)[j] = scope[j]
    BY <1>7
  <1> QED BY <1>3, <1>5, <1>6, <1>7, <1>8, <1>9, <1>10 DEF t

\* What a declaration can be.
LEMMA SpecLemma ==
    ASSUME NEW d \in Nat, NEW s \in Specs(d)
    PROVE  /\ s.fn \in BOOLEAN /\ s.type \in Types
           /\ s.symtype \in {"tentative", "declaration", "definition", "typedef"}
           /\ s.linkage \in {"none", "intern", "extern"}
           /\ s.follow = "body" => s.symtype # "typedef"
           /\ s.follow = "body" /\ s.fn => d = 0
  BY DEF Specs

\* A symbol keeps its name, its kind and its depth when it is declared again or
\* completed, and only a body makes it a definition with one body more.
LEMMA SymbolLemma ==
    ASSUME NEW sym \in Symbols, NEW d \in Nat, NEW s \in Specs(d)
    PROVE  /\ Applied(sym, s) \in Symbols /\ Applied(sym, s).name = sym.name
           /\ Applied(sym, s).fn = sym.fn /\ Applied(sym, s).depth = sym.depth
           /\ Applied(sym, s).bodies = sym.bodies /\ Applied(sym, s).symtype = sym.symtype
           /\ Redeclared(sym, s) \in Symbols /\ Redeclared(sym, s).name = sym.name
           /\ Redeclared(sym, s).fn = sym.fn /\ Redeclared(sym, s).depth = sym.depth
           /\ Redeclared(sym, s).bodies = sym.bodies
           /\ sym.symtype = "definition" => Redeclared(sym, s).symtype = "definition"
           /\ Completed(sym, s) \in Symbols /\ Completed(sym, s).name = sym.name
           /\ Completed(sym, s).fn = sym.fn /\ Completed(sym, s).depth = sym.depth
           /\ s.follow # "body" => Completed(sym, s) = sym
           /\ s.follow = "body" => /\ Completed(sym, s).bodies = sym.bodies + 1
                                   /\ Completed(sym, s).symtype = "definition"
  <1>1. /\ Applied(sym, s) \in Symbols /\ Applied(sym, s).name = sym.name
        /\ Applied(sym, s).fn = sym.fn /\ Applied(sym, s).depth = sym.depth
        /\ Applied(sym, s).bodies = sym.bodies /\ Applied(sym, s).symtype = sym.symtype
    BY SpecLemma DEF Applied, Symbols
  <1>2. /\ Redeclared(sym, s) \in Symbols /\ Redeclared(sym, s).name = sym.name
        /\ Redeclared(sym, s).fn = sym.fn /\ Redeclared(sym, s).depth = sym.depth
        /\ Redeclared(sym, s).bodies = sym.bodies
        /\ sym.symtype = "definition" => Redeclared(sym, s).symtype = "definition"
    BY <1>1 DEF Redeclared, Symbols
  <1>3. /\ Completed(sym, s) \in Symbols /\ Completed(sym, s).name = sym.name
        /\ Completed(sym, s).fn = sym.fn /\ Completed(sym, s).depth = sym.depth
        /\ s.follow # "body" => Completed(sym, s) = sym
        /\ s.follow = "body" => /\ Completed(sym, s).bodies = sym.bodies + 1
                                /\ Completed(sym, s).symtype = "definition"
    <2>1. CASE s.follow # "body"
      BY <2>1 DEF Completed
    <2>2. CASE s.follow = "body"
      <3> DEFINE n == [sym EXCEPT !.symtype = "definition", !.bodies = @ + 1]
      <3>1. Completed(sym, s) = n
        BY <2>2 DEF Completed
      <3>2. /\ n \in Symbols /\ n.name = sym.name /\ n.fn = sym.fn /\ n.depth = sym.depth
            /\ n.bodies = sym.bodies + 1 /\ n.symtype = "definition"
        <4>1. sym.bodies \in Nat /\ sym.bodies + 1 \in Nat
          BY DEF Symbols
        <4>2. n = [[sym EXCEPT !.symtype = "definition"] EXCEPT !.bodies = sym.bodies + 1]
          BY DEF Symbols
        <4> HIDE DEF n
        <4> QED BY <4>1, <4>2 DEF Symbols
      <3> QED BY <2>2, <3>1, <3>2
    <2> QED BY <2>1, <2>2
  <1> QED BY <1>1, <1>2, <1>3

---------------------------------------------------------------------------
(* Steps.                                                                  *)

\* A symbol is changed and may become visible in the current scope.
LEMMA UpdateInv ==
    ASSUME SymbolInv, len > 0, NEW id \in 1 .. Len(symbol), NEW n \in Symbols,
           n.name = symbol[id].name, n.fn = symbol[id].fn, OneBody(n),
           symbol' = [symbol EXCEPT ![id] = n], len' = len, functions' = functions,
           \/ scope' = scope /\ n.depth = symbol[id].depth
           \/ /\ scope' = sym_make_visible(n.name, id) /\ Bindings(scope[len])[n.name] = 0
              /\ n.depth = 0 <=> len = 1 \/ symbol[id].depth = 0
    PROVE  SymbolInv'
  <1> DEFINE x == n.name
  <1>1. /\ scope \in Seq(Scopes) /\ len \in Nat /\ len <= Len(scope) /\ Len(scope) \in Nat
        /\ symbol \in Seq(Symbols) /\ Len(symbol) \in Nat /\ Len(symbol) <= MaxSymbols
        /\ functions \in [Names -> Nat] /\ TypeInv
    BY DEF SymbolInv, TypeInv
  <1>2. x \in Names /\ id \in Nat /\ id # 0
    BY DEF Symbols
  <1>3. /\ symbol' \in Seq(Symbols) /\ Len(symbol') = Len(symbol)
        /\ \A j \in 1 .. Len(symbol) : symbol'[j] = IF j = id THEN n ELSE symbol[j]
    BY <1>1, ExceptSeq
  <1>4. \A j \in 1 .. Len(symbol) : symbol'[j].name = symbol[j].name /\ symbol'[j].fn = symbol[j].fn
    BY <1>3
  <1>5. \A j, y : IsSymbol(j, y) => IsSymbol(j, y)' /\ symbol'[j].fn = symbol[j].fn
    BY <1>3, <1>4 DEF IsSymbol
  <1>6. /\ scope' \in Seq(Scopes) /\ Len(scope') = Len(scope)
        /\ \A i \in 1 .. Len(scope) : i # len => scope'[i] = scope[i]
        /\ \/ scope' = scope
           \/ /\ scope'[len].state = "initialized" /\ Bindings(scope'[len]) = scope'[len].table
              /\ \A y \in Names : scope'[len].table[y] = IF y = x THEN id ELSE Bindings(scope[len])[y]
    <2>1. CASE scope' = scope
      BY <1>1, <2>1
    <2>2. CASE scope' = sym_make_visible(x, id) /\ Bindings(scope[len])[x] = 0
      <3> DEFINE sc == sym_make_visible(x, id)
      <3>1. /\ sc \in Seq(Scopes) /\ Len(sc) = Len(scope)
            /\ \A i \in 1 .. Len(scope) : i # len => sc[i] = scope[i]
            /\ sc[len].state = "initialized" /\ Bindings(sc[len]) = sc[len].table
            /\ \A y \in Names : sc[len].table[y] = IF y = x /\ Bindings(scope[len])[x] = 0
                                                  THEN id ELSE Bindings(scope[len])[y]
        BY <1>1, <1>2, VisibleLemma
      <3> HIDE DEF sc
      <3>2. scope' = sc
        BY <2>2 DEF sc
      <3> QED BY <2>2, <3>1, <3>2
    <2> QED BY <2>1, <2>2
  <1>7. TypeInv'
    BY <1>1, <1>3, <1>6 DEF TypeInv
  <1>8. LiveInv'
    <2>1. ASSUME NEW y \in Names, functions'[y] # 0
          PROVE  IsSymbol(functions[y], y)' /\ symbol'[functions'[y]].fn
      BY <1>5, <2>1 DEF SymbolInv, LiveInv
    <2>2. ASSUME NEW i \in 1 .. Len(scope'), NEW y \in Names, scope'[i].table[y] # 0
          PROVE  IsSymbol(scope[i].table[y], y)'
      <3>1. CASE scope'[i] = scope[i]
        BY <1>5, <1>6, <2>2, <3>1 DEF SymbolInv, LiveInv, IsSymbol
      <3>2. CASE i = len /\ scope'[len].table[y] = IF y = x THEN id ELSE Bindings(scope[len])[y]
        <4>1. CASE y = x
          BY <1>3, <1>4, <3>2, <4>1 DEF IsSymbol
        <4>2. CASE y # x
          <5>1. len \in 1 .. Len(scope) /\ scope[len] \in Scopes
            BY <1>1, <1>6, <3>2
          <5>2. scope[len].table[y] # 0 /\ scope'[i].table[y] = scope[len].table[y]
            BY <2>2, <3>2, <4>2, <5>1, BindingsLemma
          <5>3. IsSymbol(scope[len].table[y], y)
            BY <5>1, <5>2 DEF SymbolInv, LiveInv
          <5> QED BY <1>5, <5>2, <5>3 DEF IsSymbol
        <4> QED BY <4>1, <4>2
      <3> QED BY <1>6, <2>2, <3>1, <3>2
    <2> QED BY <2>1, <2>2 DEF LiveInv
  <1>9. FileInv'
    <2>0. 1 \in 1 .. Len(scope) /\ scope[1] \in Scopes /\ scope[len] \in Scopes /\ scope # <<>>
      BY <1>1
    <2> DEFINE t == Bindings(scope[1])
               u == Bindings(scope'[1])
    <2>1. \/ /\ u = t /\ scope'[1].state = scope[1].state
             /\ n.depth = 0 <=> symbol[id].depth = 0
          \/ /\ scope'[1].state = "initialized" /\ n.depth = 0 /\ t[x] = 0
             /\ \A y \in Names : u[y] = IF y = x THEN id ELSE t[y]
      <3>1. CASE scope' = scope /\ n.depth = symbol[id].depth
        BY <3>1
      <3>2. CASE /\ scope' = sym_make_visible(n.name, id) /\ Bindings(scope[len])[n.name] = 0
                 /\ n.depth = 0 <=> len = 1 \/ symbol[id].depth = 0
        <4>1. CASE len = 1
          <5>1. /\ scope'[1].state = "initialized" /\ Bindings(scope'[1]) = scope'[1].table
                /\ \A y \in Names : scope'[1].table[y] = IF y = x /\ Bindings(scope[1])[x] = 0
                                                        THEN id ELSE Bindings(scope[1])[y]
            <6> DEFINE sc == sym_make_visible(x, id)
            <6>1. /\ sc[len].state = "initialized" /\ Bindings(sc[len]) = sc[len].table
                  /\ \A y \in Names : sc[len].table[y] = IF y = x /\ Bindings(scope[len])[x] = 0
                                                        THEN id ELSE Bindings(scope[len])[y]
              BY <1>1, <1>2, VisibleLemma
            <6> HIDE DEF sc
            <6>2. scope' = sc
              BY <3>2 DEF sc
            <6> QED BY <4>1, <6>1, <6>2
          <5> QED BY <3>2, <4>1, <5>1
        <4>2. CASE len # 1
          BY <1>6, <2>0, <3>2, <4>2
        <4> QED BY <4>1, <4>2
      <3> QED BY <3>1, <3>2
    <2>2. /\ \A j \in 1 .. Len(symbol) : symbol[j].depth = 0 => t[symbol[j].name] = j
          /\ scope[1].state # "dirty"
          /\ \A y \in Names : t[y] # 0 => symbol[t[y]].depth = 0
      BY <2>0 DEF SymbolInv, FileInv
    <2>3. \A y \in Names : t[y] # 0 => t[y] \in 1 .. Len(symbol)
      BY <2>0, BindingsLemma DEF SymbolInv, LiveInv, IsSymbol
    <2> HIDE DEF t, u, x
    <2>4. ASSUME NEW j \in 1 .. Len(symbol), symbol'[j].depth = 0
          PROVE  u[symbol'[j].name] = j
      <3>1. symbol[j].name \in Names /\ symbol'[j].name = symbol[j].name /\ j # 0
        <4>1. symbol[j] \in Symbols
          BY <1>1
        <4> QED BY <1>4, <4>1 DEF Symbols
      <3>2. CASE j = id
        BY <1>2, <1>3, <2>1, <2>2, <2>4, <3>1, <3>2 DEF x
      <3>3. CASE j # id
        BY <1>2, <1>3, <2>1, <2>2, <2>4, <3>1, <3>3
      <3> QED BY <3>2, <3>3
    <2>5. ASSUME NEW y \in Names, u[y] # 0
          PROVE  symbol'[u[y]].depth = 0
      BY <1>2, <1>3, <2>1, <2>2, <2>3, <2>5
    <2>6. len' # 0 /\ scope'[1].state # "dirty"
      BY <2>1, <2>2
    <2> QED BY <1>3, <2>4, <2>5, <2>6 DEF FileInv, u
  <1>10. BodyInv'
    BY <1>3 DEF SymbolInv, BodyInv, OneBody
  <1> QED BY <1>7, <1>8, <1>9, <1>10 DEF SymbolInv

\* A new symbol becomes visible in the current scope, unless that has one of
\* the same name; in file scope it has none.
LEMMA AddInv ==
    ASSUME SymbolInv, NEW x \in Names, NEW s \in Specs(current_scope_depth), sym_add(x, s)
    PROVE  SymbolInv'
  <1> DEFINE id == Len(symbol) + 1
             sym == [name |-> x, fn |-> s.fn, type |-> s.type, symtype |-> s.symtype,
                     linkage |-> s.linkage, depth |-> current_scope_depth, bodies |-> 0]
             n == Completed(sym, s)
             t == Bindings(scope[len])
  <1>1. /\ scope \in Seq(Scopes) /\ len \in Nat /\ len <= Len(scope) /\ Len(scope) \in Nat
        /\ symbol \in Seq(Symbols) /\ Len(symbol) \in Nat /\ Len(symbol) <= MaxSymbols
        /\ functions \in [Names -> Nat] /\ TypeInv
    BY DEF SymbolInv, TypeInv
  <1>2. len > 0 /\ ~ Redeclares(x, s) /\ Len(symbol) < MaxSymbols /\ MaxSymbols \in Nat
    BY BoundsAssumption DEF sym_add
  <1>3. current_scope_depth = len - 1 /\ current_scope_depth \in Nat
    BY <1>1, <1>2 DEF current_scope_depth
  <1>4. sym \in Symbols /\ sym.name = x /\ sym.fn = s.fn /\ sym.depth = len - 1 /\ sym.bodies = 0
    BY <1>3, SpecLemma DEF Symbols
  <1>5. CASE InitializerClash(sym, s)
    BY <1>5 DEF sym_add, Fail, SymbolInv, TypeInv, LiveInv, FileInv, BodyInv, IsSymbol, OneBody
  <1>6. CASE /\ symbol' = Append(symbol, n) /\ scope' = sym_make_visible(x, id) /\ len' = len
             /\ functions' = IF s.fn /\ functions[x] = 0 THEN [functions EXCEPT ![x] = id] ELSE functions
    <2> HIDE DEF sym
    <2>1. /\ n \in Symbols /\ n.name = x /\ n.fn = s.fn /\ n.depth = len - 1
          /\ n.bodies <= 1 /\ (n.bodies > 0 => n.symtype = "definition" /\ s.follow = "body")
      BY <1>3, <1>4, SymbolLemma
    <2> HIDE DEF n
    <2>2. /\ symbol' \in Seq(Symbols) /\ Len(symbol') = id /\ id \in Nat /\ id # 0 /\ id <= MaxSymbols
          /\ \A j \in 1 .. Len(symbol) : symbol'[j] = symbol[j]
          /\ symbol'[id] = n
      BY <1>1, <1>2, <1>6, <2>1, AppendProperties
    <2>3. /\ scope' \in Seq(Scopes) /\ Len(scope') = Len(scope)
          /\ \A i \in 1 .. Len(scope) : i # len => scope'[i] = scope[i]
          /\ scope'[len].state = "initialized" /\ Bindings(scope'[len]) = scope'[len].table
          /\ \A y \in Names : scope'[len].table[y] = IF y = x /\ t[x] = 0 THEN id ELSE t[y]
      <3> DEFINE sc == sym_make_visible(x, id)
      <3>1. /\ sc \in Seq(Scopes) /\ Len(sc) = Len(scope)
            /\ \A i \in 1 .. Len(scope) : i # len => sc[i] = scope[i]
            /\ sc[len].state = "initialized" /\ Bindings(sc[len]) = sc[len].table
            /\ \A y \in Names : sc[len].table[y] = IF y = x /\ t[x] = 0 THEN id ELSE t[y]
        BY <1>1, <1>2, <2>2, VisibleLemma
      <3> HIDE DEF sc
      <3>2. scope' = sc
        BY <1>6 DEF sc
      <3> QED BY <3>1, <3>2
    <2>4. functions' \in [Names -> Nat]
          /\ \A y \in Names : functions'[y] = functions[y] \/ (y = x /\ s.fn /\ functions'[y] = id)
      BY <1>1, <1>6, <2>2
    <2>5. scope[len] \in Scopes /\ len \in 1 .. Len(scope) /\ 1 \in 1 .. Len(scope)
          /\ scope[1] \in Scopes /\ scope # <<>>
      BY <1>1, <1>2
    <2> HIDE DEF id
    <2>6. TypeInv'
      BY <1>1, <1>6, <2>2, <2>3, <2>4 DEF TypeInv
    <2>7. \A j, y : IsSymbol(j, y) => IsSymbol(j, y)' /\ symbol'[j].fn = symbol[j].fn
      BY <1>1, <2>2 DEF IsSymbol, id
    <2>8. id \in 1 .. Len(symbol') /\ symbol'[id].name = x /\ symbol'[id].fn = s.fn
      BY <2>1, <2>2
    <2>9. LiveInv'
      <3>1. ASSUME NEW y \in Names, functions'[y] # 0
            PROVE  IsSymbol(functions[y], y)' /\ symbol'[functions'[y]].fn
        <4>1. CASE functions'[y] = functions[y]
          BY <2>7, <3>1, <4>1 DEF SymbolInv, LiveInv, IsSymbol
        <4>2. CASE y = x /\ s.fn /\ functions'[y] = id
          BY <2>8, <4>2 DEF IsSymbol
        <4> QED BY <2>4, <4>1, <4>2
      <3>2. ASSUME NEW i \in 1 .. Len(scope'), NEW y \in Names, scope'[i].table[y] # 0
            PROVE  IsSymbol(scope[i].table[y], y)'
        <4>1. CASE i # len
          BY <2>3, <2>7, <3>2, <4>1 DEF SymbolInv, LiveInv, IsSymbol
        <4>2. CASE i = len /\ y = x /\ t[x] = 0
          BY <2>3, <2>8, <4>2 DEF IsSymbol
        <4>3. CASE i = len /\ ~ (y = x /\ t[x] = 0)
          <5>1. scope[len].table[y] # 0 /\ scope'[i].table[y] = scope[len].table[y]
            BY <2>3, <2>5, <3>2, <4>3, BindingsLemma
          <5>2. IsSymbol(scope[len].table[y], y)
            BY <2>5, <5>1 DEF SymbolInv, LiveInv
          <5> QED BY <2>7, <5>1, <5>2 DEF IsSymbol
        <4> QED BY <4>1, <4>2, <4>3
      <3> QED BY <3>1, <3>2 DEF LiveInv
    <2>10. FileInv'
      <3> DEFINE b == Bindings(scope[1])
                 u == Bindings(scope'[1])
      <3>1. /\ \A j \in 1 .. Len(symbol) : symbol[j].depth = 0 => b[symbol[j].name] = j
            /\ scope[1].state # "dirty"
            /\ \A y \in Names : b[y] # 0 => symbol[b[y]].depth = 0
        BY <2>5 DEF SymbolInv, FileInv
      <3>2. \A y \in Names : b[y] # 0 => b[y] \in 1 .. Len(symbol)
        BY <2>5, BindingsLemma DEF SymbolInv, LiveInv, IsSymbol
      <3>3. \/ u = b /\ scope'[1].state = scope[1].state /\ n.depth # 0
            \/ /\ scope'[1].state = "initialized" /\ n.depth = 0 /\ b[x] = 0
               /\ \A y \in Names : u[y] = IF y = x THEN id ELSE b[y]
        <4>1. CASE len = 1
          <5>1. sym_lookup(x) = b[x]
            BY <1>1, <4>1, LookupLemma
          <5>2. b[x] = 0
            BY <1>2, <1>3, <3>1, <4>1, <5>1 DEF Redeclares
          <5> QED BY <2>1, <2>3, <4>1, <5>2
        <4>2. CASE len # 1
          BY <1>1, <1>2, <2>1, <2>3, <2>5, <4>2
        <4> QED BY <4>1, <4>2
      <3> HIDE DEF b, u
      <3>4. ASSUME NEW j \in 1 .. Len(symbol'), symbol'[j].depth = 0
            PROVE  u[symbol'[j].name] = j
        <4>1. CASE j = id
          BY <2>1, <2>2, <3>3, <3>4, <4>1
        <4>2. CASE j # id
          <5>1. j \in 1 .. Len(symbol) /\ j # 0
            BY <1>1, <2>2, <4>2 DEF id
          <5>2. symbol'[j] = symbol[j] /\ symbol[j] \in Symbols
            BY <1>1, <2>2, <5>1
          <5>3. symbol[j].name \in Names /\ b[symbol[j].name] = j
            BY <3>1, <3>4, <5>1, <5>2 DEF Symbols
          <5> QED BY <3>3, <5>1, <5>2, <5>3
        <4> QED BY <4>1, <4>2
      <3>5. ASSUME NEW y \in Names, u[y] # 0
            PROVE  symbol'[u[y]].depth = 0
        BY <2>2, <3>1, <3>2, <3>3, <3>5
      <3>6. len' # 0 /\ scope'[1].state # "dirty"
        BY <1>2, <1>6, <3>1, <3>3
      <3> QED BY <3>4, <3>5, <3>6 DEF FileInv, u
    <2>11. BodyInv'
      <3>1. OneBody(n)
        <4>1. s.follow = "body" /\ s.fn => len - 1 = 0
          BY <1>3, SpecLemma
        <4> QED BY <2>1, <4>1 DEF OneBody
      <3>2. ASSUME NEW j \in 1 .. Len(symbol') PROVE OneBody(symbol'[j])
        <4>1. CASE j = id
          BY <2>2, <3>1, <4>1
        <4>2. CASE j # id
          <5>1. j \in 1 .. Len(symbol)
            BY <1>1, <2>2, <4>2 DEF id
          <5> QED BY <2>2, <5>1 DEF SymbolInv, BodyInv
        <4> QED BY <4>1, <4>2
      <3> QED BY <3>2 DEF BodyInv, OneBody
    <2> QED BY <2>6, <2>9, <2>10, <2>11 DEF SymbolInv
  <1> QED BY <1>5, <1>6 DEF sym_add

\* A scope that is pushed has no bindings that can be seen, and the others stay.
LEMMA PushLemma ==
    ASSUME TypeInv, push_scope
    PROVE  /\ scope' \in Seq(Scopes) /\ len' = len + 1 /\ len' <= Len(scope')
           /\ \A i \in 1 .. len : scope'[i] = scope[i]
           /\ Bindings(scope'[len + 1]) = Empty
           /\ len >= Len(scope) => scope'[len + 1].state = "created"
           /\ \A i \in 1 .. Len(scope') : \A x \in Names :
                 scope'[i].table[x] # 0 => i \in 1 .. Len(scope) /\ scope'[i].table = scope[i].table
  <1>1. /\ scope \in Seq(Scopes) /\ len \in Nat /\ len <= Len(scope) /\ Len(scope) \in Nat
        /\ len' = len + 1
    BY DEF TypeInv, push_scope
  <1>2. CASE len < Len(scope)
    <2> DEFINE old == scope[len + 1]
               new == [old EXCEPT !.state = IF old.state = "initialized" THEN "dirty" ELSE old.state]
    <2>1. len + 1 \in 1 .. Len(scope) /\ old \in Scopes
      BY <1>1, <1>2
    <2>2. scope' = [scope EXCEPT ![len + 1] = new]
      BY <1>2 DEF push_scope
    <2>3. new \in Scopes /\ new.state # "initialized" /\ new.table = old.table
      BY <2>1 DEF Scopes
    <2> HIDE DEF new
    <2>4. /\ scope' \in Seq(Scopes) /\ Len(scope') = Len(scope)
          /\ \A i \in 1 .. Len(scope) : scope'[i] = IF i = len + 1 THEN new ELSE scope[i]
      BY <1>1, <2>1, <2>2, <2>3, ExceptSeq
    <2>5. \A i \in 1 .. Len(scope) : scope'[i].table = scope[i].table
      BY <2>3, <2>4
    <2>6. Bindings(scope'[len + 1]) = Empty
      BY <2>1, <2>3, <2>4 DEF Bindings
    <2>7. \A i \in 1 .. len : scope'[i] = scope[i]
      BY <1>1, <2>4
    <2> QED BY <1>1, <1>2, <2>4, <2>5, <2>6, <2>7
  <1>3. CASE ~ (len < Len(scope))
    <2> DEFINE new == [state |-> "created", table |-> Empty]
    <2>1. scope' = Append(scope, new) /\ len = Len(scope)
      BY <1>1, <1>3 DEF push_scope
    <2>2. new \in Scopes /\ new.state = "created" /\ new.table = Empty
      BY DEF Scopes, Empty
    <2>3. \A x \in Names : new.table[x] = 0
      BY DEF Empty
    <2> HIDE DEF new
    <2>4. /\ scope' \in Seq(Scopes) /\ Len(scope') = Len(scope) + 1
          /\ \A i \in 1 .. Len(scope) : scope'[i] = scope[i]
          /\ scope'[Len(scope) + 1] = new
      BY <1>1, <2>1, <2>2, AppendProperties
    <2>5. Bindings(scope'[len + 1]) = Empty
      BY <2>1, <2>2, <2>4 DEF Bindings
    <2>6. \A i \in 1 .. Len(scope') : i \in 1 .. Len(scope) \/ i = Len(scope) + 1
      BY <1>1, <2>4
    <2>7. ASSUME NEW i \in 1 .. Len(scope'), NEW x \in Names, scope'[i].table[x] # 0
          PROVE  i \in 1 .. Len(scope) /\ scope'[i].table = scope[i].table
      BY <2>3, <2>4, <2>6, <2>7
    <2> QED BY <1>1, <2>1, <2>2, <2>4, <2>5, <2>7
  <1> QED BY <1>2, <1>3

\* Pushing a scope keeps the symbols that are found and those of file scope.
LEMMA PushInv ==
    ASSUME SymbolInv, push_scope
    PROVE  SymbolInv'
  <1>1. /\ TypeInv /\ len \in Nat /\ symbol' = symbol /\ functions' = functions
        /\ scope \in Seq(Scopes) /\ Len(scope) \in Nat /\ len <= Len(scope)
    BY DEF SymbolInv, TypeInv, push_scope
  <1>2. /\ scope' \in Seq(Scopes) /\ len' = len + 1 /\ len' <= Len(scope')
        /\ \A i \in 1 .. len : scope'[i] = scope[i]
        /\ Bindings(scope'[len + 1]) = Empty
        /\ len >= Len(scope) => scope'[len + 1].state = "created"
        /\ \A i \in 1 .. Len(scope') : \A x \in Names :
              scope'[i].table[x] # 0 => i \in 1 .. Len(scope) /\ scope'[i].table = scope[i].table
    BY <1>1, PushLemma
  <1>3. TypeInv'
    BY <1>1, <1>2 DEF TypeInv
  <1>4. LiveInv'
    BY <1>1, <1>2 DEF SymbolInv, LiveInv, IsSymbol
  <1>5. FileInv'
    <2>1. CASE len = 0
      <3>1. symbol = <<>> /\ scope = <<>> /\ Len(symbol) = 0 /\ Len(scope) = 0
        BY <2>1 DEF SymbolInv, FileInv
      <3>2. scope'[1].state = "created" /\ Bindings(scope'[1]) = Empty
        BY <1>2, <2>1, <3>1
      <3>3. \A x \in Names : Empty[x] = 0
        BY DEF Empty
      <3> QED BY <1>1, <1>2, <2>1, <3>1, <3>2, <3>3 DEF FileInv
    <2>2. CASE len # 0
      <3>1. 1 \in 1 .. len /\ scope # <<>> /\ len' # 0
        BY <1>1, <1>2, <2>2
      <3>2. scope'[1] = scope[1]
        BY <1>2, <3>1
      <3> QED BY <1>1, <3>1, <3>2 DEF SymbolInv, FileInv
    <2> QED BY <2>1, <2>2
  <1>6. BodyInv'
    BY <1>1 DEF SymbolInv, BodyInv
  <1> QED BY <1>3, <1>4, <1>5, <1>6 DEF SymbolInv

\* Popping one keeps them too, and the last one leaves nothing.
LEMMA PopInv ==
    ASSUME SymbolInv, pop_scope \/ pop_last_scope
    PROVE  SymbolInv'
  <1>1. CASE pop_scope
    <2>1. /\ scope' = scope /\ symbol' = symbol /\ functions' = functions /\ len' = len - 1
          /\ len' # 0 /\ len' \in Nat /\ len' <= Len(scope)
      BY <1>1 DEF pop_scope, SymbolInv, TypeInv
    <2> QED BY <2>1 DEF SymbolInv, TypeInv, LiveInv, FileInv, BodyInv, IsSymbol
  <1>2. CASE pop_last_scope
    <2>1. scope' = <<>> /\ symbol' = <<>> /\ functions' = Empty /\ len' = 0
      BY <1>2 DEF pop_last_scope
    <2>2. Len(<<>>) = 0 /\ <<>> \in Seq(Scopes) /\ <<>> \in Seq(Symbols)
      OBVIOUS
    <2>3. Empty \in [Names -> Nat] /\ \A x \in Names : Empty[x] = 0
      BY DEF Empty
    <2>4. MaxSymbols \in Nat
      BY BoundsAssumption
    <2> QED BY <2>1, <2>2, <2>3, <2>4 DEF SymbolInv, TypeInv, LiveInv, FileInv, BodyInv
  <1> QED BY <1>1, <1>2

\* A declaration that is refused changes nothing that is looked at.
LEMMA FailInv ==
    ASSUME SymbolInv, scope' = scope, len' = len, symbol' = symbol, functions' = functions
    PROVE  SymbolInv'
  BY DEF SymbolInv, TypeInv, LiveInv, FileInv, BodyInv, IsSymbol, OneBody

\* A function that is known but not visible has no body when it gets one here,
\* since a function with a body is visible in file scope.
LEMMA FunctionInv ==
    ASSUME SymbolInv, NEW x \in Names, NEW s \in Specs(current_scope_depth), sym_add_function(x, s)
    PROVE  SymbolInv'
  <1> DEFINE id == functions[x]
             sym == [Applied(symbol[id], s) EXCEPT
                        !.depth = IF current_scope_depth < @ THEN current_scope_depth ELSE @]
             n == Completed(sym, s)
  <1>1. /\ scope \in Seq(Scopes) /\ len \in Nat /\ len <= Len(scope) /\ Len(scope) \in Nat
        /\ symbol \in Seq(Symbols) /\ TypeInv /\ functions \in [Names -> Nat]
    BY DEF SymbolInv, TypeInv
  <1>2. len > 0 /\ sym_lookup(x) = 0 /\ s.fn /\ id # 0
    BY DEF sym_add_function
  <1>3. current_scope_depth = len - 1 /\ current_scope_depth \in Nat
    BY <1>1, <1>2 DEF current_scope_depth
  <1>4. id \in 1 .. Len(symbol) /\ symbol[id].name = x /\ symbol[id].fn /\ symbol[id] \in Symbols
    BY <1>1, <1>2 DEF SymbolInv, LiveInv, IsSymbol
  <1>5. /\ sym \in Symbols /\ sym.name = x /\ sym.fn = symbol[id].fn
        /\ sym.bodies = symbol[id].bodies /\ sym.symtype = symbol[id].symtype
        /\ sym.depth = 0 <=> len = 1 \/ symbol[id].depth = 0
    <2> DEFINE a == Applied(symbol[id], s)
    <2>1. /\ a \in Symbols /\ a.name = x /\ a.fn = symbol[id].fn /\ a.depth = symbol[id].depth
          /\ a.bodies = symbol[id].bodies /\ a.symtype = symbol[id].symtype
      <3> HIDE DEF id
      <3>1. symbol[id] \in Symbols /\ symbol[id].name = x
        BY <1>4
      <3>2. /\ a \in Symbols /\ a.name = symbol[id].name /\ a.fn = symbol[id].fn
            /\ a.depth = symbol[id].depth
            /\ a.bodies = symbol[id].bodies /\ a.symtype = symbol[id].symtype
        BY <1>3, <3>1, SymbolLemma
      <3> QED BY <3>1, <3>2
    <2>2. sym = [a EXCEPT !.depth = IF len - 1 < a.depth THEN len - 1 ELSE a.depth]
      BY <1>3
    <2> HIDE DEF a, sym, id
    <2>3. a.depth \in Nat
      BY <2>1 DEF Symbols
    <2> DEFINE d == IF len - 1 < a.depth THEN len - 1 ELSE a.depth
    <2>4. d \in Nat /\ (d = 0 <=> len = 1 \/ a.depth = 0)
      BY <1>1, <1>2, <2>3
    <2>5. sym = [a EXCEPT !.depth = d]
      BY <2>2
    <2> HIDE DEF d
    <2>6. sym \in Symbols /\ sym.depth = d /\ sym.name = a.name /\ sym.fn = a.fn
          /\ sym.bodies = a.bodies /\ sym.symtype = a.symtype
      BY <2>1, <2>4, <2>5 DEF Symbols
    <2> QED BY <2>1, <2>4, <2>6
  <1>6. \A i \in 1 .. len : Bindings(scope[i])[x] = 0
    BY <1>1, <1>2, LookupLemma
  <1>7. s.follow = "body" => symbol[id].bodies = 0 /\ len = 1
    <2> SUFFICES ASSUME s.follow = "body" PROVE symbol[id].bodies = 0 /\ len = 1
      OBVIOUS
    <2>1. len = 1
      BY <1>1, <1>2, <1>3, SpecLemma
    <2>2. Bindings(scope[1])[x] = 0
      BY <1>6, <2>1
    <2>3. symbol[id].depth # 0
      BY <1>2, <1>4, <2>2 DEF SymbolInv, FileInv
    <2>4. ~ (symbol[id].bodies > 0)
      BY <1>4, <2>3 DEF SymbolInv, BodyInv, OneBody
    <2>5. symbol[id].bodies \in Nat
      BY <1>4 DEF Symbols
    <2> QED BY <2>1, <2>4, <2>5
  <1>8. CASE UNCHANGED <<scope, len, symbol, functions>>
    BY <1>8, FailInv
  <1>9. CASE /\ scope' = sym_make_visible(x, id) /\ symbol' = [symbol EXCEPT ![id] = n]
             /\ len' = len /\ functions' = functions
    <2> HIDE DEF sym
    <2>1. /\ n \in Symbols /\ n.name = x /\ n.fn = symbol[id].fn /\ n.depth = sym.depth
          /\ s.follow # "body" => n = sym
          /\ s.follow = "body" => n.bodies = sym.bodies + 1 /\ n.symtype = "definition"
      BY <1>3, <1>5, SymbolLemma
    <2>2. OneBody(symbol[id])
      BY <1>4 DEF SymbolInv, BodyInv
    <2> HIDE DEF n, id
    <2>3. OneBody(n)
      <3>1. CASE s.follow = "body"
        <4>1. n.bodies = 1 /\ n.depth = 0
          BY <1>5, <1>7, <2>1, <3>1
        <4> QED BY <2>1, <3>1, <4>1 DEF OneBody
      <3>2. CASE s.follow # "body"
        BY <1>5, <2>1, <2>2, <3>2 DEF OneBody
      <3> QED BY <3>1, <3>2
    <2>4. Bindings(scope[len])[n.name] = 0
      BY <1>1, <1>2, <1>6, <2>1
    <2> QED BY <1>2, <1>4, <1>5, <1>9, <2>1, <2>3, <2>4, UpdateInv
  <1> QED BY <1>8, <1>9 DEF sym_add_function, Fail, Update

\* A symbol of file scope that has a body is a definition, and every other
\* initializer or body for it is refused.
LEMMA RedeclareInv ==
    ASSUME SymbolInv, NEW x \in Names, NEW s \in Specs(current_scope_depth), sym_redeclare(x, s)
    PROVE  SymbolInv'
  <1> DEFINE id == sym_lookup(x)
             sym == Redeclared(symbol[id], s)
             n == Completed(sym, s)
  <1>1. /\ scope \in Seq(Scopes) /\ len \in Nat /\ len <= Len(scope) /\ Len(scope) \in Nat
        /\ symbol \in Seq(Symbols) /\ TypeInv
    BY DEF SymbolInv, TypeInv
  <1>2. len > 0 /\ id # 0 /\ symbol[id].depth = 0
    BY DEF sym_redeclare, Redeclares
  <1>3. current_scope_depth = len - 1 /\ current_scope_depth \in Nat
    BY <1>1, <1>2 DEF current_scope_depth
  <1>4. PICK i \in 1 .. len : id = Bindings(scope[i])[x]
    BY <1>1, <1>2, LookupLemma
  <1>5. id \in 1 .. Len(symbol) /\ symbol[id] \in Symbols
    <2>1. i \in 1 .. Len(scope) /\ scope[i] \in Scopes
      BY <1>1
    <2>2. id = scope[i].table[x]
      BY <1>2, <1>4, <2>1, BindingsLemma
    <2>3. id \in 1 .. Len(symbol)
      BY <1>2, <2>1, <2>2 DEF SymbolInv, LiveInv, IsSymbol
    <2> QED BY <1>1, <2>3
  <1>6. CASE UNCHANGED <<scope, len, symbol, functions>>
    BY <1>6, FailInv
  <1>7. CASE /\ ~ TypeClash(symbol[id], s) /\ ~ InitializerClash(sym, s)
             /\ scope' = scope /\ symbol' = [symbol EXCEPT ![id] = n]
             /\ len' = len /\ functions' = functions
    <2> HIDE DEF id
    <2>1. /\ sym \in Symbols /\ sym.name = symbol[id].name /\ sym.fn = symbol[id].fn
          /\ sym.depth = symbol[id].depth /\ sym.bodies = symbol[id].bodies
          /\ symbol[id].symtype = "definition" => sym.symtype = "definition"
      BY <1>3, <1>5, SymbolLemma
    <2> HIDE DEF sym
    <2>2. /\ n \in Symbols /\ n.name = sym.name /\ n.fn = sym.fn /\ n.depth = sym.depth
          /\ s.follow # "body" => n = sym
          /\ s.follow = "body" => n.bodies = sym.bodies + 1 /\ n.symtype = "definition"
      BY <1>3, <2>1, SymbolLemma
    <2>3. OneBody(symbol[id])
      BY <1>5 DEF SymbolInv, BodyInv
    <2> HIDE DEF n
    <2>4. symbol[id].bodies \in Nat
      BY <1>5 DEF Symbols
    <2>5. OneBody(n)
      <3>1. CASE s.follow = "body"
        <4>1. s.symtype # "typedef"
          BY <1>3, <3>1, SpecLemma
        <4>2. symbol[id].symtype # "definition"
          <5>1. CASE s.fn
            BY <1>7, <3>1, <4>1, <5>1 DEF TypeClash, FuncBody
          <5>2. CASE ~ s.fn
            BY <1>2, <1>7, <2>1, <3>1, <5>2 DEF InitializerClash
          <5> QED BY <5>1, <5>2
        <4>3. symbol[id].bodies = 0
          BY <2>3, <2>4, <4>2 DEF OneBody
        <4> QED BY <1>2, <2>1, <2>2, <3>1, <4>3 DEF OneBody
      <3>2. CASE s.follow # "body"
        BY <2>1, <2>2, <2>3, <3>2 DEF OneBody
      <3> QED BY <3>1, <3>2
    <2> QED BY <1>2, <1>5, <1>7, <2>1, <2>2, <2>5, UpdateInv
  <1> QED BY <1>6, <1>7 DEF sym_redeclare, Fail, Update

\* At first nothing is declared.
LEMMA InitInv ==
    ASSUME Init
    PROVE  SymbolInv
  <1>1. scope = <<>> /\ symbol = <<>> /\ functions = Empty /\ len = 0
    BY DEF Init
  <1>2. Len(<<>>) = 0 /\ <<>> \in Seq(Scopes) /\ <<>> \in Seq(Symbols)
    OBVIOUS
  <1>3. Empty \in [Names -> Nat] /\ \A x \in Names : Empty[x] = 0
    BY DEF Empty
  <1>4. MaxSymbols \in Nat
    BY BoundsAssumption
  <1> QED BY <1>1, <1>2, <1>3, <1>4 DEF SymbolInv, TypeInv, LiveInv, FileInv, BodyInv

\* Every step keeps the invariant.
LEMMA NextInv ==
    ASSUME SymbolInv, [Next]_vars
    PROVE  SymbolInv'
  <1>1. CASE UNCHANGED vars
    BY <1>1, FailInv DEF vars
  <1> QED BY <1>1, PushInv, PopInv, FunctionInv, RedeclareInv, AddInv DEF Next, Exited

\* The invariant holds in all behaviours.
LEMMA AlwaysInv == Spec => []SymbolInv
  <1>1. Init => SymbolInv
    BY InitInv
  <1>2. SymbolInv /\ [Next]_vars => SymbolInv'
    BY NextInv
  <1> QED BY <1>1, <1>2, PTL DEF Spec

---------------------------------------------------------------------------
(* Theorems.                                                               *)

\* What sym_lookup and the table of functions return is a symbol of that name
\* that has not been freed, for any nesting of scopes, popped, reused and
\* dirty ones included, and after the end of a translation unit.
THEOREM FoundLive == Spec => []FoundIsLive
  <1>1. ASSUME SymbolInv PROVE FoundIsLive
    <2> SUFFICES ASSUME NEW x \in Names, NEW id \in {sym_lookup(x), functions[x]} \ {0}
                 PROVE  id <= Len(symbol) /\ symbol[id].name = x
      BY DEF FoundIsLive
    <2>1. TypeInv
      BY <1>1 DEF SymbolInv
    <2>2. CASE id = functions[x]
      BY <1>1, <2>1, <2>2 DEF SymbolInv, TypeInv, LiveInv, IsSymbol
    <2>3. CASE id = sym_lookup(x)
      <3>1. PICK i \in 1 .. len : id = Bindings(scope[i])[x]
        BY <2>1, <2>3, LookupLemma
      <3>2. i \in 1 .. Len(scope) /\ scope[i] \in Scopes
        BY <2>1 DEF TypeInv
      <3>3. id = scope[i].table[x]
        BY <3>1, <3>2, BindingsLemma
      <3> QED BY <1>1, <2>1, <3>2, <3>3 DEF SymbolInv, TypeInv, LiveInv, IsSymbol
    <2> QED BY <2>2, <2>3
  <1> QED BY <1>1, AlwaysInv, PTL

\* A name has at most one symbol of depth 0: what sym_add_function moves there
\* from a block, and what sym_add makes, is never a second one.
THEOREM FileScopeUnique == Spec => []OneSymbolInFileScope
  <1>1. ASSUME SymbolInv PROVE OneSymbolInFileScope
    BY <1>1 DEF SymbolInv, FileInv, OneSymbolInFileScope
  <1> QED BY <1>1, AlwaysInv, PTL

\* No symbol gets two initializers or bodies, whichever way sym_add finds it.
THEOREM OneDefinition == Spec => []DefinedOnce
  <1>1. ASSUME SymbolInv PROVE DefinedOnce
    BY <1>1 DEF SymbolInv, BodyInv, OneBody, DefinedOnce
  <1> QED BY <1>1, AlwaysInv, PTL

---------------------------------------------------------------------------
(* The scopes are a stack.                                                 *)

\* The stack that the first n of the scopes sc are seen as.
EnvOf(sc, n) == [i \in 1 .. n |-> Bindings(sc[i])]
Env == EnvOf(scope, len)

\* It has one map from names to symbols for every scope that is open.
LEMMA EnvLemma ==
    ASSUME NEW sc \in Seq(Scopes), NEW n \in Nat, n <= Len(sc)
    PROVE  /\ EnvOf(sc, n) \in Seq([Names -> Nat]) /\ Len(EnvOf(sc, n)) = n
           /\ \A i \in 1 .. n : EnvOf(sc, n)[i] = Bindings(sc[i])
  <1>1. Len(sc) \in Nat /\ \A i \in 1 .. n : sc[i] \in Scopes
    OBVIOUS
  <1>2. \A i \in 1 .. n : Bindings(sc[i]) \in [Names -> Nat]
    BY <1>1, BindingsLemma
  <1>3. EnvOf(sc, n) \in [1 .. n -> [Names -> Nat]]
    BY <1>2 DEF EnvOf
  <1>4. EnvOf(sc, n) \in Seq([Names -> Nat])
    BY <1>3, SeqDef
  <1>5. Len(EnvOf(sc, n)) = n
    BY <1>3, <1>4, LenProperties
  <1> QED BY <1>4, <1>5 DEF EnvOf

\* sym_make_visible binds a name that the current scope does not bind, or does
\* nothing that can be seen.
LEMMA BindStep ==
    ASSUME SymbolInv, TypeInv', len > 0, NEW x \in Names, NEW id \in Ids,
           scope' = sym_make_visible(x, id), len' = len
    PROVE  Env' = Env \/ Visible!Bind
  <1> DEFINE sc == sym_make_visible(x, id)
             t == Bindings(scope[len])
             u == IF t[x] # 0 THEN t ELSE [t EXCEPT ![x] = id]
  <1>1. TypeInv /\ len \in 1 .. len /\ len \in Nat /\ len <= Len(scope) /\ Len(scope) \in Nat
    BY DEF SymbolInv, TypeInv
  <1>2. id \in Nat
    BY BoundsAssumption DEF Ids
  <1>3. /\ \A i \in 1 .. Len(scope) : i # len => sc[i] = scope[i]
        /\ Bindings(sc[len]) = sc[len].table
        /\ sc[len].table = u
    BY <1>1, <1>2, VisibleLemma
  <1> HIDE DEF sc, t, u
  <1>4. scope' = sc
    BY DEF sc
  <1>5. /\ Env \in Seq([Names -> Nat]) /\ Len(Env) = len
        /\ \A i \in 1 .. len : Env[i] = Bindings(scope[i])
    BY <1>1, EnvLemma DEF TypeInv, Env
  <1>6. /\ Env' \in Seq([Names -> Nat]) /\ Len(Env') = len
        /\ \A i \in 1 .. len : Env'[i] = Bindings(scope'[i])
    BY EnvLemma DEF TypeInv, Env
  <1>7. \A i \in 1 .. len : Env'[i] = IF i = len THEN u ELSE Env[i]
    <2> TAKE i \in 1 .. len
    <2>1. i \in 1 .. Len(scope) /\ Env'[i] = Bindings(sc[i]) /\ Env[i] = Bindings(scope[i])
      BY <1>1, <1>4, <1>5, <1>6
    <2>2. CASE i = len
      BY <1>3, <2>1, <2>2
    <2>3. CASE i # len
      BY <1>3, <2>1, <2>3
    <2> QED BY <2>2, <2>3
  <1>8. Env[len] = t
    BY <1>1, <1>5 DEF t
  <1>9. CASE t[x] # 0
    <2>1. \A i \in 1 .. len : Env'[i] = Env[i]
      BY <1>1, <1>7, <1>8, <1>9 DEF u
    <2> QED BY <1>5, <1>6, <2>1, SeqEqual
  <1>10. CASE t[x] = 0
    <2>1. Env # <<>> /\ Last(Env) = t
      BY <1>1, <1>5, <1>8 DEF Last
    <2>2. u = [t EXCEPT ![x] = id] /\ t \in [Names -> Nat]
      BY <1>1, <1>5, <1>8, <1>10 DEF u
    <2>3. u \in [Names -> Nat]
      BY <1>2, <2>2
    <2>4. /\ [Env EXCEPT ![len] = u] \in Seq([Names -> Nat])
          /\ Len([Env EXCEPT ![len] = u]) = len
          /\ \A i \in 1 .. len : [Env EXCEPT ![len] = u][i] = IF i = len THEN u ELSE Env[i]
      BY <1>1, <1>5, <2>3, ExceptSeq
    <2>5. Env' = [Env EXCEPT ![len] = u]
      BY <1>5, <1>6, <1>7, <2>4, SeqEqual
    <2>6. [Env EXCEPT ![len][x] = id] = [Env EXCEPT ![len] = [Env[len] EXCEPT ![x] = id]]
      OBVIOUS
    <2>7. Env' = [Env EXCEPT ![Len(Env)][x] = id]
      BY <1>5, <1>8, <2>2, <2>5, <2>6
    <2>8. \E y \in Names, i \in Ids : /\ Env # <<>> /\ Last(Env)[y] = 0
                                     /\ Env' = [Env EXCEPT ![Len(Env)][y] = i]
      BY <1>10, <2>1, <2>7
    <2> QED BY <2>8 DEF Visible!Bind, Visible!Last, Last, Env, EnvOf
  <1> QED BY <1>9, <1>10

\* Every step of the namespace is a step of the stack, or is not seen in it.
LEMMA StackStep ==
    ASSUME SymbolInv, SymbolInv', [Next]_vars
    PROVE  Env' = Env \/ Visible!Next
  <1>1. /\ TypeInv /\ TypeInv' /\ len \in Nat /\ len <= Len(scope) /\ Len(scope) \in Nat
    BY DEF SymbolInv, TypeInv
  <1>2. /\ Env \in Seq([Names -> Nat]) /\ Len(Env) = len
        /\ \A i \in 1 .. len : Env[i] = Bindings(scope[i])
    BY <1>1, EnvLemma DEF TypeInv, Env
  <1>3. /\ Env' \in Seq([Names -> Nat]) /\ Len(Env') = len' /\ len' \in Nat
        /\ \A i \in 1 .. len' : Env'[i] = Bindings(scope'[i])
    BY <1>1, EnvLemma DEF TypeInv, Env
  <1>4. CASE push_scope
    <2>1. /\ len' = len + 1 /\ \A i \in 1 .. len : scope'[i] = scope[i]
          /\ Bindings(scope'[len + 1]) = Empty
      BY <1>1, <1>4, PushLemma
    <2>2. Empty \in [Names -> Nat]
      BY DEF Empty
    <2>3. /\ Append(Env, Empty) \in Seq([Names -> Nat]) /\ Len(Append(Env, Empty)) = len + 1
          /\ \A i \in 1 .. len : Append(Env, Empty)[i] = Env[i]
          /\ Append(Env, Empty)[len + 1] = Empty
      BY <1>2, <2>2, AppendProperties
    <2>4. \A i \in 1 .. len + 1 : i \in 1 .. len \/ i = len + 1
      BY <1>1
    <2>5. \A i \in 1 .. len + 1 : Env'[i] = Append(Env, Empty)[i]
      BY <1>1, <1>2, <1>3, <2>1, <2>3, <2>4
    <2>6. Env' = Append(Env, Empty)
      BY <1>3, <2>1, <2>3, <2>5, SeqEqual
    <2> QED BY <2>6 DEF Visible!Next, Visible!Push, Visible!Unbound, Env, EnvOf, Empty
  <1>5. CASE pop_scope \/ pop_last_scope
    <2>1. len > 0 /\ len' = len - 1
      BY <1>1, <1>5 DEF pop_scope, pop_last_scope
    <2>2. \A i \in 1 .. len' : scope'[i] = scope[i]
      BY <1>1, <1>5 DEF pop_scope, pop_last_scope
    <2>3. Env # <<>>
      BY <1>2, <2>1
    <2>4. /\ Front(Env) \in Seq([Names -> Nat]) /\ Len(Front(Env)) = len - 1
          /\ \A i \in 1 .. len - 1 : Front(Env)[i] = Env[i]
      BY <1>2, <2>3, FrontLast
    <2>5. \A i \in 1 .. len' : Env'[i] = Front(Env)[i]
      BY <1>1, <1>2, <1>3, <2>1, <2>2, <2>4
    <2>6. Env' = Front(Env)
      BY <1>3, <2>1, <2>4, <2>5, SeqEqual
    <2> QED BY <2>3, <2>6 DEF Visible!Next, Visible!Pop, Visible!Front, Front, Env, EnvOf
  <1>6. CASE scope' = scope /\ len' = len
    BY <1>6 DEF Env, EnvOf
  <1>7. ASSUME NEW x \in Names, NEW id \in Ids, len > 0,
               scope' = sym_make_visible(x, id), len' = len
        PROVE  Env' = Env \/ Visible!Next
    BY <1>1, <1>7, BindStep DEF Visible!Next
  <1>8. ASSUME NEW x \in Names, NEW s \in Specs(current_scope_depth), sym_add_function(x, s)
        PROVE  Env' = Env \/ Visible!Next
    <2>1. functions[x] \in Ids /\ len > 0
      BY <1>1, <1>8, BoundsAssumption DEF SymbolInv, LiveInv, TypeInv, IsSymbol, sym_add_function, Ids
    <2>2. \/ scope' = scope /\ len' = len
          \/ scope' = sym_make_visible(x, functions[x]) /\ len' = len
      BY <1>8 DEF sym_add_function, Fail, Update
    <2> QED BY <1>6, <1>7, <2>1, <2>2
  <1>9. ASSUME NEW x \in Names, NEW s \in Specs(current_scope_depth), sym_redeclare(x, s)
        PROVE  Env' = Env \/ Visible!Next
    BY <1>6, <1>9 DEF sym_redeclare, Fail, Update
  <1>10. ASSUME NEW x \in Names, NEW s \in Specs(current_scope_depth), sym_add(x, s)
         PROVE  Env' = Env \/ Visible!Next
    <2>1. Len(symbol) + 1 \in Ids /\ len > 0
      BY <1>1, <1>10, BoundsAssumption DEF TypeInv, sym_add, Ids
    <2>2. \/ scope' = scope /\ len' = len
          \/ scope' = sym_make_visible(x, Len(symbol) + 1) /\ len' = len
      BY <1>10 DEF sym_add, Fail
    <2> QED BY <1>6, <1>7, <2>1, <2>2
  <1>11. CASE UNCHANGED vars
    BY <1>6, <1>11 DEF vars
  <1> QED BY <1>4, <1>5, <1>8, <1>9, <1>10, <1>11 DEF Next, Exited

\* The scopes of the namespace, which are kept when they are popped, marked as
\* dirty when they are used again and cleared when something is declared,
\* implement a stack of scopes.
THEOREM ScopesImplementStack == Spec => ScopesAreAStack
  <1>1. Init => Visible!Init
    <2> SUFFICES ASSUME Init PROVE Env = <<>>
      BY DEF Visible!Init, Env, EnvOf
    <2>1. len = 0 /\ TypeInv
      BY InitInv DEF Init, SymbolInv
    <2> QED BY <2>1, EnvLemma, EmptySeq DEF TypeInv, Env
  <1>2. SymbolInv /\ SymbolInv' /\ [Next]_vars => [Visible!Next]_Env
    BY StackStep
  <1>3. SymbolInv /\ SymbolInv' /\ [Next]_vars => [Visible!Next]_([i \in 1 .. len |-> Bindings(scope[i])])
    BY <1>2 DEF Env, EnvOf
  <1> QED BY <1>1, <1>3, AlwaysInv, PTL DEF Spec, ScopesAreAStack, Visible!Spec
===========================================================================
