----------------------------- MODULE HashTable -----------------------------
(***************************************************************************)
(* The hash tables of util/hash.c.  The first entry of a bucket lies in    *)
(* the table itself, further ones are allocated nodes in a chain; nodes    *)
(* that are not needed any more wait in a list behind the last bucket.     *)
(* Symbols, strings and macros are kept in such tables.                    *)
(***************************************************************************)
EXTENDS Integers, SequencesExt

CONSTANTS
    Keys, Vals,
    Key(_),      \* tab->key
    Hash(_),     \* djb2_hash; keys may have the same one
    Capacity,    \* tab->capacity
    Nodes,       \* hash_entry objects that calloc can return
    NULL

ASSUME CapacityAssumption == Capacity \in Nat \ {0}
ASSUME HashAssumption == \A k \in Keys : Hash(k) \in Nat
ASSUME KeyAssumption == \A v \in Vals : Key(v) \in Keys
ASSUME NullAssumption == NULL \notin Vals

Slots == 0 .. Capacity - 1

VARIABLES
    slot,        \* data of the first entry of each bucket
    chain,       \* the nodes behind it, in order
    data,        \* the data of nodes
    free,        \* the list at table[capacity]
    allocated,   \* nodes that calloc has returned
    result       \* what the last operation returned

vars == <<slot, chain, data, free, allocated, result>>

\* hash_init
Init ==
    /\ slot = [p \in Slots |-> NULL] /\ chain = [p \in Slots |-> <<>>]
    /\ data = [c \in Nodes |-> NULL] /\ free = <<>> /\ allocated = {}
    /\ result = NULL

---------------------------------------------------------------------------
(* hash_walk.                                                              *)

\* The bucket of a key.
Pos(k) == Hash(k) % Capacity

\* Mutant: entries are told apart by their hash only.
IsEntryByHash(v, k) == v # NULL /\ Hash(Key(v)) = Hash(k)

\* An entry with data v is the one for k.
IsEntry(v, k) == v # NULL /\ Key(v) = k

\* Positions in the chain at which the walk for k ends.
Matching(k) == {i \in 1 .. Len(chain[Pos(k)]) : IsEntry(data[chain[Pos(k)][i]], k)}

\* What the walk finds.
Found(k) ==
    IF slot[Pos(k)] = NULL THEN NULL
    ELSE IF IsEntry(slot[Pos(k)], k) THEN slot[Pos(k)]
    ELSE IF Matching(k) # {} THEN data[chain[Pos(k)][Min(Matching(k))]]
    ELSE NULL

\* hash_alloc_entry: the first node of the list, else a new one.
Available == IF free # <<>> THEN {Head(free)} ELSE Nodes \ allocated

\* The list after hash_alloc_entry.
FreeAfterAlloc == IF free # <<>> THEN Tail(free) ELSE free

---------------------------------------------------------------------------
(* Operations.                                                             *)

\* The key has an entry: its data is returned.
InsertFound(v) ==
    /\ Found(Key(v)) # NULL
    /\ result' = Found(Key(v))
    /\ UNCHANGED <<slot, chain, data, free, allocated>>

InsertFirst(v) ==
    /\ slot[Pos(Key(v))] = NULL
    /\ slot' = [slot EXCEPT ![Pos(Key(v))] = v]
    /\ result' = v
    /\ UNCHANGED <<chain, data, free, allocated>>

\* Mutant: the node from the list is not taken off it.
InsertChainShared(v) ==
    /\ Found(Key(v)) = NULL /\ slot[Pos(Key(v))] # NULL
    /\ \E c \in Available :
          /\ chain' = [chain EXCEPT ![Pos(Key(v))] = Append(@, c)]
          /\ data' = [data EXCEPT ![c] = v]
          /\ allocated' = allocated \cup {c}
    /\ result' = v
    /\ UNCHANGED <<slot, free>>

\* A node is put at the end of the chain.
InsertChain(v) ==
    /\ Found(Key(v)) = NULL /\ slot[Pos(Key(v))] # NULL
    /\ \E c \in Available :
          /\ chain' = [chain EXCEPT ![Pos(Key(v))] = Append(@, c)]
          /\ data' = [data EXCEPT ![c] = v]
          /\ allocated' = allocated \cup {c}
    /\ free' = FreeAfterAlloc /\ result' = v
    /\ UNCHANGED slot

hash_lookup(k) ==
    /\ result' = Found(k)
    /\ UNCHANGED <<slot, chain, data, free, allocated>>

RemoveAbsent(k) ==
    /\ Found(k) = NULL
    /\ result' = NULL
    /\ UNCHANGED <<slot, chain, data, free, allocated>>

\* The next entry moves to the first place, and its node becomes free.
UnlinkFirst(k) ==
    LET p == Pos(k) IN
    /\ IsEntry(slot[p], k) /\ result' = slot[p]
    /\ IF chain[p] # <<>>
       THEN /\ slot' = [slot EXCEPT ![p] = data[Head(chain[p])]]
            /\ chain' = [chain EXCEPT ![p] = Tail(@)]
            /\ free' = <<Head(chain[p])>> \o free
       ELSE /\ slot' = [slot EXCEPT ![p] = NULL]
            /\ UNCHANGED <<chain, free>>
    /\ UNCHANGED <<data, allocated>>

UnlinkNode(k) ==
    LET p == Pos(k)
        i == Min(Matching(k))
    IN  /\ slot[p] # NULL /\ ~ IsEntry(slot[p], k) /\ Matching(k) # {}
        /\ result' = data[chain[p][i]]
        /\ chain' = [chain EXCEPT ![p] = RemoveAt(@, i)]
        /\ free' = <<chain[p][i]>> \o free
        /\ UNCHANGED <<slot, data, allocated>>

\* The list when hash_clear has put the chains of the first i buckets in front
\* of it.
Cleared[i \in 0 .. Capacity] == IF i = 0 THEN free ELSE chain[i - 1] \o Cleared[i - 1]

\* hash_clear keeps the nodes.
hash_clear ==
    /\ slot' = [p \in Slots |-> NULL] /\ chain' = [p \in Slots |-> <<>>]
    /\ free' = Cleared[Capacity] /\ result' = NULL
    /\ UNCHANGED <<data, allocated>>

\* hash_destroy frees the chains and the list; hash_init makes a new table.
hash_destroy ==
    /\ slot' = [p \in Slots |-> NULL] /\ chain' = [p \in Slots |-> <<>>]
    /\ free' = <<>> /\ result' = NULL
    /\ allocated' = allocated \ (ToSet(free) \cup UNION {ToSet(chain[p]) : p \in Slots})
    /\ UNCHANGED data

Next ==
    \/ \E v \in Vals : InsertFound(v) \/ InsertFirst(v) \/ InsertChain(v)
    \/ \E k \in Keys : hash_lookup(k) \/ RemoveAbsent(k) \/ UnlinkFirst(k) \/ UnlinkNode(k)
    \/ hash_clear \/ hash_destroy

Spec == Init /\ [][Next]_vars

---------------------------------------------------------------------------
(* Properties.                                                             *)

\* All lists of nodes: the chains, and the free list as number Capacity.
Lists == [p \in 0 .. Capacity |-> IF p = Capacity THEN free ELSE chain[p]]

\* No node is in two chains, or in a chain and free, or twice in either.
NodesOwnedOnce ==
    \A p, q \in 0 .. Capacity :
        \A i \in 1 .. Len(Lists[p]), j \in 1 .. Len(Lists[q]) :
            Lists[p][i] = Lists[q][j] => p = q /\ i = j

\* The table seen as a map.
Map == INSTANCE HashMap WITH map <- [k \in Keys |-> Found(k)]

\* Collisions, reused nodes and removals in front of a chain cannot be noticed:
\* the table is a map from keys to the values inserted first.
IsAMap == Map!Spec
===========================================================================
