---------------------------- MODULE MCHashTable ----------------------------
(***************************************************************************)
(* Small instances of HashTable: two buckets, four keys, three of which    *)
(* share a bucket and two of those the hash.                               *)
(***************************************************************************)
EXTENDS HashTable

MCKeys == {"a", "b", "c", "d"}
MCVals == {"a1", "a2", "b1", "c1", "d1"}
MCKey(v) == CASE v \in {"a1", "a2"} -> "a" [] v = "b1" -> "b" [] v = "c1" -> "c" [] v = "d1" -> "d"
MCHash(k) == CASE k = "a" -> 4 [] k = "b" -> 4 [] k = "c" -> 2 [] k = "d" -> 1
===========================================================================
