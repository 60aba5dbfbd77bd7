----------------------------- MODULE ScopeStack -----------------------------
(***************************************************************************)
(* What a namespace promises about visibility: a stack of scopes, each of  *)
(* which binds a name to the symbol that was declared first in it.         *)
(***************************************************************************)
EXTENDS Integers, SequencesExt

CONSTANTS Names, Ids

\* A scope in which nothing has been declared; 0 is no symbol.
Unbound == [x \in Names |-> 0]

VARIABLE env     \* the scopes from the outermost to the current one

Init == env = <<>>

Push == env' = Append(env, Unbound)

Pop == env # <<>> /\ env' = Front(env)

\* The current scope gets a symbol for x, unless it has one already.
Bind == \E x \in Names, s \in Ids :
            /\ env # <<>> /\ Last(env)[x] = 0
            /\ env' = [env EXCEPT ![Len(env)][x] = s]

Next == Push \/ Pop \/ Bind

Spec == Init /\ [][Next]_env
===========================================================================
