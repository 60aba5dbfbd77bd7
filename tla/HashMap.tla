------------------------------ MODULE HashMap ------------------------------
(***************************************************************************)
(* What a hash table promises: at most one value for each key, the one     *)
(* inserted first, until it is removed.                                    *)
(***************************************************************************)
CONSTANTS Keys, Vals, Key(_), NULL

VARIABLES map,     \* the value of each key, or NULL
          result   \* what the last operation returned

Init == map = [k \in Keys |-> NULL] /\ result = NULL

\* The value that is in the map afterwards is returned.
Insert(v) ==
    /\ map' = IF map[Key(v)] = NULL THEN [map EXCEPT ![Key(v)] = v] ELSE map
    /\ result' = map'[Key(v)]

Lookup(k) == result' = map[k] /\ map' = map

Remove(k) == result' = map[k] /\ map' = [map EXCEPT ![k] = NULL]

Clear == map' = [k \in Keys |-> NULL] /\ result' = NULL

Next == \/ \E v \in Vals : Insert(v)
        \/ \E k \in Keys : Lookup(k) \/ Remove(k)
        \/ Clear

Spec == Init /\ [][Next]_<<map, result>>
===========================================================================
