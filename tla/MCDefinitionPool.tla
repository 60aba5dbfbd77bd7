------------------------- MODULE MCDefinitionPool -------------------------
(***************************************************************************)
(* Small instances of DefinitionPool.                                      *)
(***************************************************************************)
EXTENDS DefinitionPool, TLC

\* The members of Blocks, and of Defs, are interchangeable.
Symmetry == Permutations(Blocks) \cup Permutations(Defs)
===========================================================================
