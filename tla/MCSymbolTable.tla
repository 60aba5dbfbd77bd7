--------------------------- MODULE MCSymbolTable ---------------------------
(***************************************************************************)
(* Small instances of SymbolTable.                                         *)
(***************************************************************************)
EXTENDS SymbolTable, TLC

\* The members of Names are interchangeable.
Symmetry == Permutations(Names)
===========================================================================
