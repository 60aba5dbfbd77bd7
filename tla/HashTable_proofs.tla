-------------------------- MODULE HashTable_proofs --------------------------
(***************************************************************************)
(* Proofs about HashTable: every node is in one list only, and the table   *)
(* implements a map, for any number of buckets, keys and nodes and any     *)
(* hash function.                                                          *)
(***************************************************************************)
EXTENDS HashTable, StackLemmas

---------------------------------------------------------------------------
(* The inductive invariant.                                                *)

\* The lists of a family L, numbered from 0 to Capacity, share no node.
OwnedOnce(L) ==
    \A p, q \in 0 .. Capacity :
        \A i \in 1 .. Len(L[p]), j \in 1 .. Len(L[q]) : L[p][i] = L[q][j] => p = q /\ i = j

TypeInv ==
    /\ slot \in [Slots -> Vals \cup {NULL}] /\ chain \in [Slots -> Seq(Nodes)]
    /\ data \in [Nodes -> Vals \cup {NULL}] /\ free \in Seq(Nodes)
    /\ allocated \in SUBSET Nodes

\* The nodes of the lists have been allocated: calloc returns none of them.
AllocInv == \A p \in 0 .. Capacity : \A i \in 1 .. Len(Lists[p]) : Lists[p][i] \in allocated

\* The data of entry i of a bucket, the one in the table itself being number 0.
Entry(p, i) == IF i = 0 THEN slot[p] ELSE data[chain[p][i]]

\* A bucket without a first entry has no others; entries have data, and their
\* keys differ.
BucketInv(p) ==
    /\ slot[p] = NULL => chain[p] = <<>>
    /\ \A i \in 1 .. Len(chain[p]) : data[chain[p][i]] # NULL
    /\ \A i, j \in 0 .. Len(chain[p]) :
          Entry(p, i) # NULL /\ Entry(p, j) # NULL /\ Key(Entry(p, i)) = Key(Entry(p, j)) => i = j

HashInv == TypeInv /\ NodesOwnedOnce /\ AllocInv /\ \A p \in Slots : BucketInv(p)

---------------------------------------------------------------------------
(* Families of lists.                                                      *)

\* The lists of the table as such a family.
LEMMA ListsLemma ==
    ASSUME TypeInv
    PROVE  /\ Lists \in [0 .. Capacity -> Seq(Nodes)] /\ Lists[Capacity] = free
           /\ \A p \in Slots : p \in 0 .. Capacity /\ p # Capacity /\ Lists[p] = chain[p]
           /\ \A p \in 0 .. Capacity : p # Capacity => p \in Slots
           /\ NodesOwnedOnce <=> OwnedOnce(Lists)
  <1>1. Capacity \in Nat /\ Capacity > 0
    BY CapacityAssumption
  <1>2. /\ \A p \in Slots : p \in 0 .. Capacity /\ p # Capacity
        /\ \A p \in 0 .. Capacity : p # Capacity => p \in Slots
    BY <1>1 DEF Slots
  <1>3. \A p \in 0 .. Capacity : (IF p = Capacity THEN free ELSE chain[p]) \in Seq(Nodes)
    BY <1>2 DEF TypeInv
  <1>4. Lists \in [0 .. Capacity -> Seq(Nodes)]
    BY <1>3 DEF Lists
  <1>5. Lists[Capacity] = free /\ \A p \in Slots : Lists[p] = chain[p]
    BY <1>1, <1>2 DEF Lists
  <1> QED BY <1>2, <1>4, <1>5 DEF NodesOwnedOnce, OwnedOnce

\* Two places that hold the same node are the same place.
LEMMA SamePlace ==
    ASSUME NEW L, OwnedOnce(L), NEW p \in 0 .. Capacity, NEW q \in 0 .. Capacity,
           NEW i \in 1 .. Len(L[p]), NEW j \in 1 .. Len(L[q]), L[p][i] = L[q][j]
    PROVE  p = q /\ i = j
  BY Zenon DEF OwnedOnce

\* The node at place i of list q of M comes from place col[q][i] of list
\* row[q][i] of L ...
ComesFrom(M, L, row, col) ==
    \A q \in 0 .. Capacity : \A i \in 1 .. Len(M[q]) :
        /\ row[q][i] \in 0 .. Capacity /\ col[q][i] \in 1 .. Len(L[row[q][i]])
        /\ M[q][i] = L[row[q][i]][col[q][i]]

\* ... and no two of them from the same place.
Distinct(M, row, col) ==
    \A p, q \in 0 .. Capacity : \A i \in 1 .. Len(M[p]), j \in 1 .. Len(M[q]) :
        row[p][i] = row[q][j] /\ col[p][i] = col[q][j] => p = q /\ i = j

\* A family whose nodes come from different places of one that shares no node
\* shares none.
LEMMA Reindexed ==
    ASSUME NEW L, OwnedOnce(L), NEW M, NEW row, NEW col,
           ComesFrom(M, L, row, col), Distinct(M, row, col)
    PROVE  OwnedOnce(M)
  <1> SUFFICES ASSUME NEW p \in 0 .. Capacity, NEW q \in 0 .. Capacity,
                      NEW i \in 1 .. Len(M[p]), NEW j \in 1 .. Len(M[q]), M[p][i] = M[q][j]
               PROVE  p = q /\ i = j
    BY DEF OwnedOnce
  <1> DEFINE r1 == row[p][i]  c1 == col[p][i]  r2 == row[q][j]  c2 == col[q][j]
  <1>1. r1 \in 0 .. Capacity /\ c1 \in 1 .. Len(L[r1]) /\ M[p][i] = L[r1][c1]
    BY DEF ComesFrom
  <1>2. r2 \in 0 .. Capacity /\ c2 \in 1 .. Len(L[r2]) /\ M[q][j] = L[r2][c2]
    BY DEF ComesFrom
  <1> HIDE DEF r1, c1, r2, c2
  <1>3. L[r1][c1] = L[r2][c2]
    BY <1>1, <1>2
  <1>4. r1 = r2 /\ c1 = c2
    BY <1>1, <1>2, <1>3, SamePlace, SMT
  <1> QED BY <1>4 DEF Distinct, r1, c1, r2, c2

\* A node that is taken out of list a and put in front of list b is still in
\* one list only (hash_free_entry).
LEMMA MoveToFront ==
    ASSUME NEW L \in [0 .. Capacity -> Seq(Nodes)], NEW M \in [0 .. Capacity -> Seq(Nodes)],
           OwnedOnce(L), NEW a \in 0 .. Capacity, NEW b \in 0 .. Capacity, a # b,
           NEW k \in 1 .. Len(L[a]),
           \A q \in 0 .. Capacity : q # a /\ q # b => M[q] = L[q],
           Len(M[a]) = Len(L[a]) - 1,
           \A i \in 1 .. Len(M[a]) : M[a][i] = L[a][IF i < k THEN i ELSE i + 1],
           M[b] = <<L[a][k]>> \o L[b]
    PROVE  /\ OwnedOnce(M)
           /\ \A q \in 0 .. Capacity : \A i \in 1 .. Len(M[q]) :
                \E r \in 0 .. Capacity : \E j \in 1 .. Len(L[r]) : M[q][i] = L[r][j]
  <1> DEFINE row(q, i) == IF q = b /\ i = 1 THEN a ELSE q
             col(q, i) == IF q = a THEN (IF i < k THEN i ELSE i + 1)
                          ELSE IF q = b THEN (IF i = 1 THEN k ELSE i - 1) ELSE i
  <1>1. \A q \in 0 .. Capacity : Len(L[q]) \in Nat /\ Len(M[q]) \in Nat
    BY LenProperties
  <1>2. /\ Len(M[b]) = Len(L[b]) + 1 /\ M[b][1] = L[a][k]
        /\ \A i \in 2 .. Len(M[b]) : M[b][i] = L[b][i - 1]
    <2>1. L[a][k] \in Nodes /\ L[b] \in Seq(Nodes)
      BY <1>1, ElementOfSeq
    <2>2. /\ <<L[a][k]>> \in Seq(Nodes) /\ Len(<<L[a][k]>>) = 1 /\ <<L[a][k]>>[1] = L[a][k]
      BY <2>1
    <2> QED BY <1>1, <2>1, <2>2, ConcatProperties
  <1>3. ASSUME NEW q \in 0 .. Capacity, NEW i \in 1 .. Len(M[q])
        PROVE  /\ row(q, i) \in 0 .. Capacity /\ col(q, i) \in 1 .. Len(L[row(q, i)])
               /\ M[q][i] = L[row(q, i)][col(q, i)]
    <2>1. CASE q = a
      BY <1>1, <2>1
    <2>2. CASE q = b /\ i = 1
      BY <1>2, <2>2
    <2>3. CASE q = b /\ i # 1
      <3>1. i \in 2 .. Len(M[b]) /\ i - 1 \in 1 .. Len(L[b])
        BY <1>1, <1>2, <2>3
      <3> QED BY <1>2, <2>3, <3>1
    <2>4. CASE q # a /\ q # b
      BY <2>4
    <2> QED BY <2>1, <2>2, <2>3, <2>4
  <1>4. ASSUME NEW p \in 0 .. Capacity, NEW i \in 1 .. Len(M[p]),
               NEW q \in 0 .. Capacity, NEW j \in 1 .. Len(M[q]),
               row(p, i) = row(q, j), col(p, i) = col(q, j)
        PROVE  p = q /\ i = j
    <2>1. i \in Int /\ j \in Int /\ k \in Int /\ 1 <= i /\ 1 <= j
      BY <1>1
    <2>2. CASE p = b /\ i = 1
      <3>1. row(q, j) = a /\ col(q, j) = k
        BY <1>4, <2>2
      <3>2. q # a
        BY <2>1, <3>1
      <3> QED BY <2>2, <3>1, <3>2
    <2>3. CASE q = b /\ j = 1
      <3>1. row(p, i) = a /\ col(p, i) = k
        BY <1>4, <2>3
      <3>2. p # a
        BY <2>1, <3>1
      <3> QED BY <2>3, <3>1, <3>2
    <2>4. CASE ~ (p = b /\ i = 1) /\ ~ (q = b /\ j = 1)
      <3>1. p = q
        BY <1>4, <2>4
      <3>2. col(p, i) = col(p, j)
        BY <1>4, <3>1
      <3>3. i = j
        BY <2>1, <2>4, <3>1, <3>2
      <3> QED BY <3>1, <3>3
    <2> QED BY <2>2, <2>3, <2>4
  <1> HIDE DEF row, col
  <1>5. OwnedOnce(M)
    <2> DEFINE R == [q \in 0 .. Capacity |-> [i \in 1 .. Len(M[q]) |-> row(q, i)]]
               C == [q \in 0 .. Capacity |-> [i \in 1 .. Len(M[q]) |-> col(q, i)]]
    <2>1. \A q \in 0 .. Capacity : \A i \in 1 .. Len(M[q]) : R[q][i] = row(q, i) /\ C[q][i] = col(q, i)
      OBVIOUS
    <2> HIDE DEF R, C
    <2>2. ComesFrom(M, L, R, C)
      <3> SUFFICES ASSUME NEW q \in 0 .. Capacity, NEW i \in 1 .. Len(M[q])
                   PROVE  /\ R[q][i] \in 0 .. Capacity /\ C[q][i] \in 1 .. Len(L[R[q][i]])
                          /\ M[q][i] = L[R[q][i]][C[q][i]]
        BY DEF ComesFrom
      <3>1. R[q][i] = row(q, i) /\ C[q][i] = col(q, i)
        BY <2>1
      <3> QED BY <1>3, <3>1
    <2>3. Distinct(M, R, C)
      <3> SUFFICES ASSUME NEW p \in 0 .. Capacity, NEW q \in 0 .. Capacity,
                          NEW i \in 1 .. Len(M[p]), NEW j \in 1 .. Len(M[q]),
                          R[p][i] = R[q][j] /\ C[p][i] = C[q][j]
                   PROVE  p = q /\ i = j
        BY Zenon DEF Distinct
      <3>1. R[p][i] = row(p, i) /\ C[p][i] = col(p, i) /\ R[q][j] = row(q, j) /\ C[q][j] = col(q, j)
        BY <2>1
      <3>2. row(p, i) = row(q, j) /\ col(p, i) = col(q, j)
        BY <3>1
      <3> QED BY <1>4, <3>2
    <2> QED BY <2>2, <2>3, Reindexed
  <1> QED BY <1>3, <1>5

\* A node that is taken from the front of list b and put at the end of list a
\* is still in one list only (hash_alloc_entry with a list of free nodes).
LEMMA MoveToEnd ==
    ASSUME NEW L \in [0 .. Capacity -> Seq(Nodes)], NEW M \in [0 .. Capacity -> Seq(Nodes)],
           OwnedOnce(L), NEW a \in 0 .. Capacity, NEW b \in 0 .. Capacity, a # b,
           L[b] # <<>>,
           \A q \in 0 .. Capacity : q # a /\ q # b => M[q] = L[q],
           M[a] = Append(L[a], Head(L[b])), M[b] = Tail(L[b])
    PROVE  /\ OwnedOnce(M)
           /\ \A q \in 0 .. Capacity : \A i \in 1 .. Len(M[q]) :
                \E r \in 0 .. Capacity : \E j \in 1 .. Len(L[r]) : M[q][i] = L[r][j]
  <1> DEFINE row(q, i) == IF q = a /\ i = Len(L[a]) + 1 THEN b ELSE q
             col(q, i) == IF q = a /\ i = Len(L[a]) + 1 THEN 1 ELSE IF q = b THEN i + 1 ELSE i
  <1>1. \A q \in 0 .. Capacity : Len(L[q]) \in Nat /\ Len(M[q]) \in Nat
    BY LenProperties
  <1>2. /\ Len(L[b]) > 0 /\ Head(L[b]) = L[b][1] /\ Len(M[b]) = Len(L[b]) - 1
        /\ \A i \in 1 .. Len(M[b]) : M[b][i] = L[b][i + 1]
    BY HeadTailProperties
  <1>3. /\ Len(M[a]) = Len(L[a]) + 1 /\ M[a][Len(L[a]) + 1] = L[b][1]
        /\ \A i \in 1 .. Len(L[a]) : M[a][i] = L[a][i]
    <2>1. L[b][1] \in Nodes /\ L[a] \in Seq(Nodes)
      BY <1>1, <1>2, ElementOfSeq
    <2> QED BY <1>2, <2>1, AppendProperties
  <1>4. ASSUME NEW q \in 0 .. Capacity, NEW i \in 1 .. Len(M[q])
        PROVE  /\ row(q, i) \in 0 .. Capacity /\ col(q, i) \in 1 .. Len(L[row(q, i)])
               /\ M[q][i] = L[row(q, i)][col(q, i)]
    <2>1. CASE q = a /\ i = Len(L[a]) + 1
      BY <1>1, <1>2, <1>3, <2>1
    <2>2. CASE q = a /\ i # Len(L[a]) + 1
      <3>1. i \in 1 .. Len(L[a])
        BY <1>1, <1>3, <2>2
      <3> QED BY <1>3, <2>2, <3>1
    <2>3. CASE q = b
      <3>1. i + 1 \in 1 .. Len(L[b])
        BY <1>1, <1>2, <2>3
      <3> QED BY <1>2, <2>3, <3>1
    <2>4. CASE q # a /\ q # b
      BY <2>4
    <2> QED BY <2>1, <2>2, <2>3, <2>4
  <1>5. ASSUME NEW p \in 0 .. Capacity, NEW i \in 1 .. Len(M[p]),
               NEW q \in 0 .. Capacity, NEW j \in 1 .. Len(M[q]),
               row(p, i) = row(q, j), col(p, i) = col(q, j)
        PROVE  p = q /\ i = j
    <2>1. i \in Int /\ j \in Int /\ 1 <= i /\ 1 <= j
      BY <1>1
    <2>2. CASE p = a /\ i = Len(L[a]) + 1
      <3>1. row(q, j) = b /\ col(q, j) = 1
        BY <1>5, <2>2
      <3>2. q # b
        BY <2>1, <3>1
      <3> QED BY <2>2, <3>1, <3>2
    <2>3. CASE q = a /\ j = Len(L[a]) + 1
      <3>1. row(p, i) = b /\ col(p, i) = 1
        BY <1>5, <2>3
      <3>2. p # b
        BY <2>1, <3>1
      <3> QED BY <2>3, <3>1, <3>2
    <2>4. CASE ~ (p = a /\ i = Len(L[a]) + 1) /\ ~ (q = a /\ j = Len(L[a]) + 1)
      <3>1. p = q
        BY <1>5, <2>4
      <3>2. col(p, i) = col(p, j)
        BY <1>5, <3>1
      <3>3. i = j
        BY <2>1, <2>4, <3>1, <3>2
      <3> QED BY <3>1, <3>3
    <2> QED BY <2>2, <2>3, <2>4
  <1> HIDE DEF row, col
  <1>6. OwnedOnce(M)
    <2> DEFINE R == [q \in 0 .. Capacity |-> [i \in 1 .. Len(M[q]) |-> row(q, i)]]
               C == [q \in 0 .. Capacity |-> [i \in 1 .. Len(M[q]) |-> col(q, i)]]
    <2>1. \A q \in 0 .. Capacity : \A i \in 1 .. Len(M[q]) : R[q][i] = row(q, i) /\ C[q][i] = col(q, i)
      OBVIOUS
    <2> HIDE DEF R, C
    <2>2. ComesFrom(M, L, R, C)
      <3> SUFFICES ASSUME NEW q \in 0 .. Capacity, NEW i \in 1 .. Len(M[q])
                   PROVE  /\ R[q][i] \in 0 .. Capacity /\ C[q][i] \in 1 .. Len(L[R[q][i]])
                          /\ M[q][i] = L[R[q][i]][C[q][i]]
        BY DEF ComesFrom
      <3>1. R[q][i] = row(q, i) /\ C[q][i] = col(q, i)
        BY <2>1
      <3> QED BY <1>4, <3>1
    <2>3. Distinct(M, R, C)
      <3> SUFFICES ASSUME NEW p \in 0 .. Capacity, NEW q \in 0 .. Capacity,
                          NEW i \in 1 .. Len(M[p]), NEW j \in 1 .. Len(M[q]),
                          R[p][i] = R[q][j] /\ C[p][i] = C[q][j]
                   PROVE  p = q /\ i = j
        BY Zenon DEF Distinct
      <3>1. R[p][i] = row(p, i) /\ C[p][i] = col(p, i) /\ R[q][j] = row(q, j) /\ C[q][j] = col(q, j)
        BY <2>1
      <3>2. row(p, i) = row(q, j) /\ col(p, i) = col(q, j)
        BY <3>1
      <3> QED BY <1>5, <3>2
    <2> QED BY <2>2, <2>3, Reindexed
  <1> QED BY <1>4, <1>6

\* M has one node more than L, c at place n of list a.
OneMore(M, L, a, n, c) ==
    \A q \in 0 .. Capacity : \A i \in 1 .. Len(M[q]) :
        IF q = a /\ i = n THEN M[q][i] = c ELSE i \in 1 .. Len(L[q]) /\ M[q][i] = L[q][i]

\* The node c is in no list of L.
Unused(L, c) == \A q \in 0 .. Capacity : \A i \in 1 .. Len(L[q]) : L[q][i] # c

\* A node that is in no list may be put into one.
LEMMA OneMoreOwned ==
    ASSUME NEW L, OwnedOnce(L), NEW M, NEW a, NEW n, NEW c, Unused(L, c), OneMore(M, L, a, n, c)
    PROVE  OwnedOnce(M)
  <1> SUFFICES ASSUME NEW p \in 0 .. Capacity, NEW q \in 0 .. Capacity,
                      NEW i \in 1 .. Len(M[p]), NEW j \in 1 .. Len(M[q]), M[p][i] = M[q][j]
               PROVE  p = q /\ i = j
    BY DEF OwnedOnce
  <1>1. CASE (p = a /\ i = n) \/ (q = a /\ j = n)
    <2>1. CASE p = a /\ i = n /\ q = a /\ j = n
      BY <2>1
    <2>2. CASE p = a /\ i = n /\ ~ (q = a /\ j = n)
      <3>1. M[p][i] = c /\ j \in 1 .. Len(L[q]) /\ M[q][j] = L[q][j]
        BY <2>2 DEF OneMore
      <3>2. L[q][j] # c
        BY <3>1 DEF Unused
      <3> QED BY <3>1, <3>2
    <2>3. CASE q = a /\ j = n /\ ~ (p = a /\ i = n)
      <3>1. M[q][j] = c /\ i \in 1 .. Len(L[p]) /\ M[p][i] = L[p][i]
        BY <2>3 DEF OneMore
      <3>2. L[p][i] # c
        BY <3>1 DEF Unused
      <3> QED BY <3>1, <3>2
    <2> QED BY <1>1, <2>1, <2>2, <2>3
  <1>2. CASE ~ (p = a /\ i = n) /\ ~ (q = a /\ j = n)
    <2>1. /\ i \in 1 .. Len(L[p]) /\ j \in 1 .. Len(L[q])
          /\ M[p][i] = L[p][i] /\ M[q][j] = L[q][j]
      BY <1>2 DEF OneMore
    <2>2. L[p][i] = L[q][j]
      BY <2>1
    <2> QED BY <2>1, <2>2, SamePlace, SMT
  <1> QED BY <1>1, <1>2

\* A node that is in no list may be put at the end of list a (hash_alloc_entry
\* with a node from calloc).
LEMMA NewAtEnd ==
    ASSUME NEW L \in [0 .. Capacity -> Seq(Nodes)], NEW M \in [0 .. Capacity -> Seq(Nodes)],
           OwnedOnce(L), NEW a \in 0 .. Capacity, NEW c \in Nodes,
           Unused(L, c),
           \A q \in 0 .. Capacity : q # a => M[q] = L[q],
           M[a] = Append(L[a], c)
    PROVE  OwnedOnce(M) /\ OneMore(M, L, a, Len(L[a]) + 1, c)
  <1> DEFINE n == Len(L[a]) + 1
  <1>1. \A q \in 0 .. Capacity : Len(L[q]) \in Nat /\ Len(M[q]) \in Nat
    BY LenProperties
  <1>2. /\ Len(M[a]) = n /\ M[a][n] = c
        /\ \A i \in 1 .. Len(L[a]) : M[a][i] = L[a][i]
    BY AppendProperties
  <1>3. \A q \in 0 .. Capacity : \A i \in 1 .. Len(M[q]) :
          IF q = a /\ i = n THEN M[q][i] = c ELSE i \in 1 .. Len(L[q]) /\ M[q][i] = L[q][i]
    <2> TAKE q \in 0 .. Capacity
    <2> TAKE i \in 1 .. Len(M[q])
    <2>1. CASE q = a /\ i # n
      <3>1. i \in 1 .. Len(L[a])
        BY <1>1, <1>2, <2>1
      <3> QED BY <1>2, <2>1, <3>1
    <2> QED BY <1>2, <2>1
  <1> HIDE DEF n
  <1>4. OneMore(M, L, a, n, c)
    BY <1>3 DEF OneMore
  <1>5. OwnedOnce(M)
    BY <1>4, OneMoreOwned
  <1> QED BY <1>4, <1>5 DEF n

\* A list a that is put in front of list b as a whole (hash_clear).
LEMMA MoveAll ==
    ASSUME NEW L \in [0 .. Capacity -> Seq(Nodes)], NEW M \in [0 .. Capacity -> Seq(Nodes)],
           OwnedOnce(L), NEW a \in 0 .. Capacity, NEW b \in 0 .. Capacity, a # b,
           \A q \in 0 .. Capacity : q # a /\ q # b => M[q] = L[q],
           M[a] = <<>>, M[b] = L[a] \o L[b]
    PROVE  /\ OwnedOnce(M)
           /\ \A q \in 0 .. Capacity : \A i \in 1 .. Len(M[q]) :
                \E r \in 0 .. Capacity : \E j \in 1 .. Len(L[r]) : M[q][i] = L[r][j]
  <1> DEFINE n == Len(L[a])
             row(q, i) == IF q = b /\ i <= n THEN a ELSE q
             col(q, i) == IF q = b /\ i > n THEN i - n ELSE i
  <1>1. \A q \in 0 .. Capacity : Len(L[q]) \in Nat /\ Len(M[q]) \in Nat
    BY LenProperties
  <1>2. /\ Len(M[b]) = n + Len(L[b]) /\ Len(M[a]) = 0
        /\ \A i \in 1 .. Len(M[b]) : M[b][i] = IF i <= n THEN L[a][i] ELSE L[b][i - n]
    BY ConcatProperties, EmptySeq
  <1>3. n \in Nat
    BY <1>1
  <1> HIDE DEF n
  <1>4. ASSUME NEW q \in 0 .. Capacity, NEW i \in 1 .. Len(M[q])
        PROVE  /\ row(q, i) \in 0 .. Capacity /\ col(q, i) \in 1 .. Len(L[row(q, i)])
               /\ M[q][i] = L[row(q, i)][col(q, i)]
    <2>1. CASE q = b /\ i <= n
      <3>1. i \in 1 .. Len(L[a])
        BY <1>1, <1>3, <2>1 DEF n
      <3> QED BY <1>2, <1>3, <2>1, <3>1
    <2>2. CASE q = b /\ ~ (i <= n)
      <3>1. i > n /\ i - n \in 1 .. Len(L[b])
        BY <1>1, <1>2, <1>3, <2>2
      <3> QED BY <1>2, <1>3, <2>2, <3>1
    <2>3. CASE q # b
      <3>1. q # a
        BY <1>2
      <3> QED BY <2>3, <3>1
    <2> QED BY <2>1, <2>2, <2>3
  <1>5. ASSUME NEW p \in 0 .. Capacity, NEW i \in 1 .. Len(M[p]),
               NEW q \in 0 .. Capacity, NEW j \in 1 .. Len(M[q]),
               row(p, i) = row(q, j), col(p, i) = col(q, j)
        PROVE  p = q /\ i = j
    <2>1. p # a /\ q # a /\ i \in Nat /\ j \in Nat
      BY <1>1, <1>2
    <2>2. CASE i <= n
      <3>1. j <= n
        BY <1>3, <1>5, <2>1, <2>2
      <3> QED BY <1>3, <1>5, <2>1, <2>2, <3>1
    <2>3. CASE ~ (i <= n)
      <3>1. p = q
        BY <1>3, <1>5, <2>1, <2>3
      <3> QED BY <1>3, <1>5, <2>1, <2>3, <3>1
    <2> QED BY <2>2, <2>3
  <1> HIDE DEF row, col
  <1>6. OwnedOnce(M)
    <2> DEFINE R == [q \in 0 .. Capacity |-> [i \in 1 .. Len(M[q]) |-> row(q, i)]]
               C == [q \in 0 .. Capacity |-> [i \in 1 .. Len(M[q]) |-> col(q, i)]]
    <2>1. \A q \in 0 .. Capacity : \A i \in 1 .. Len(M[q]) : R[q][i] = row(q, i) /\ C[q][i] = col(q, i)
      OBVIOUS
    <2> HIDE DEF R, C
    <2>2. ComesFrom(M, L, R, C)
      <3> SUFFICES ASSUME NEW q \in 0 .. Capacity, NEW i \in 1 .. Len(M[q])
                   PROVE  /\ R[q][i] \in 0 .. Capacity /\ C[q][i] \in 1 .. Len(L[R[q][i]])
                          /\ M[q][i] = L[R[q][i]][C[q][i]]
        BY DEF ComesFrom
      <3>1. R[q][i] = row(q, i) /\ C[q][i] = col(q, i)
        BY <2>1
      <3> QED BY <1>4, <3>1
    <2>3. Distinct(M, R, C)
      <3> SUFFICES ASSUME NEW p \in 0 .. Capacity, NEW q \in 0 .. Capacity,
                          NEW i \in 1 .. Len(M[p]), NEW j \in 1 .. Len(M[q]),
                          R[p][i] = R[q][j] /\ C[p][i] = C[q][j]
                   PROVE  p = q /\ i = j
        BY Zenon DEF Distinct
      <3>1. R[p][i] = row(p, i) /\ C[p][i] = col(p, i) /\ R[q][j] = row(q, j) /\ C[q][j] = col(q, j)
        BY <2>1
      <3>2. row(p, i) = row(q, j) /\ col(p, i) = col(q, j)
        BY <3>1
      <3> QED BY <1>5, <3>2
    <2> QED BY <2>2, <2>3, Reindexed
  <1> QED BY <1>4, <1>6

\* What the loop of hash_clear computes: there is such a function, and its
\* values are lists of nodes.
LEMMA ClearedLemma ==
    ASSUME TypeInv
    PROVE  /\ Cleared[0] = free
           /\ \A n \in 0 .. Capacity : Cleared[n] \in Seq(Nodes)
           /\ \A n \in 1 .. Capacity : Cleared[n] = chain[n - 1] \o Cleared[n - 1]
  <1> DEFINE step(g) == [i \in 0 .. Capacity |-> IF i = 0 THEN free ELSE chain[i - 1] \o g[i - 1]]
             good(n, g) == /\ g \in [0 .. n -> Seq(Nodes)] /\ g[0] = free
                           /\ \A i \in 1 .. n : g[i] = chain[i - 1] \o g[i - 1]
             T == {n \in Nat : n <= Capacity => \E g : good(n, g)}
  <1>1. Capacity \in Nat /\ \A i \in 1 .. Capacity : chain[i - 1] \in Seq(Nodes)
    BY CapacityAssumption DEF TypeInv, Slots
  <1>2. Nat \subseteq T
    <2> HIDE DEF good
    <2>1. 0 \in T
      <3>1. good(0, [i \in 0 .. 0 |-> free])
        BY DEF TypeInv, good
      <3> QED BY <3>1
    <2>2. ASSUME NEW n \in Nat, n \in T PROVE n + 1 \in T
      <3> SUFFICES ASSUME n + 1 <= Capacity PROVE \E g : good(n + 1, g)
        OBVIOUS
      <3>1. PICK g : good(n, g)
        BY <1>1, <2>2
      <3> USE DEF good
      <3> DEFINE h == [i \in 0 .. n + 1 |-> IF i = n + 1 THEN chain[n] \o g[n] ELSE g[i]]
      <3>2. n \in 0 .. n /\ n + 1 \in 1 .. Capacity /\ (n + 1) - 1 = n
        BY <1>1
      <3>3. chain[n] \in Seq(Nodes) /\ g[n] \in Seq(Nodes)
        BY <1>1, <3>1, <3>2
      <3>4. chain[n] \o g[n] \in Seq(Nodes)
        BY <3>3, ConcatProperties
      <3>5. \A i \in 0 .. n + 1 : i = n + 1 \/ i \in 0 .. n
        OBVIOUS
      <3>6. h \in [0 .. n + 1 -> Seq(Nodes)]
        BY <3>1, <3>4, <3>5
      <3>7. h[0] = free
        BY <3>1
      <3>8. ASSUME NEW i \in 1 .. n + 1 PROVE h[i] = chain[i - 1] \o h[i - 1]
        <4>1. i \in 0 .. n + 1 /\ i - 1 \in 0 .. n + 1 /\ i - 1 # n + 1
          OBVIOUS
        <4>2. h[i - 1] = g[i - 1]
          BY <4>1
        <4>3. CASE i = n + 1
          BY <3>2, <4>1, <4>2, <4>3
        <4>4. CASE i # n + 1
          <5>1. i \in 1 .. n /\ h[i] = g[i]
            BY <4>1, <4>4
          <5> QED BY <3>1, <4>2, <5>1
        <4> QED BY <4>3, <4>4
      <3> HIDE DEF h
      <3>9. good(n + 1, h)
        BY <3>6, <3>7, <3>8
      <3> QED BY <3>9
    <2> HIDE DEF T
    <2> QED BY <2>1, <2>2, SetInduction
  <1> HIDE DEF good
  <1>3. PICK f : good(Capacity, f)
    BY <1>1, <1>2
  <1>4. f = step(f)
    <2>1. /\ f \in [0 .. Capacity -> Seq(Nodes)] /\ f[0] = free
          /\ \A i \in 1 .. Capacity : f[i] = chain[i - 1] \o f[i - 1]
      BY <1>3 DEF good
    <2>2. \A i \in 0 .. Capacity : i = 0 \/ i \in 1 .. Capacity
      BY <1>1
    <2>3. \A i \in 0 .. Capacity : f[i] = IF i = 0 THEN free ELSE chain[i - 1] \o f[i - 1]
      BY <2>1, <2>2
    <2> QED BY <2>1, <2>3
  <1>5. Cleared = step(Cleared)
    BY <1>4 DEF Cleared
  <1>6. /\ Cleared[0] = free
        /\ \A n \in 1 .. Capacity : Cleared[n] = chain[n - 1] \o Cleared[n - 1]
    BY <1>1, <1>5
  <1> DEFINE U == {n \in Nat : n <= Capacity => Cleared[n] \in Seq(Nodes)}
  <1>7. Nat \subseteq U
    <2>1. 0 \in U
      BY <1>6 DEF TypeInv
    <2>2. ASSUME NEW n \in Nat, n \in U PROVE n + 1 \in U
      <3> SUFFICES ASSUME n + 1 <= Capacity PROVE Cleared[n + 1] \in Seq(Nodes)
        OBVIOUS
      <3>1. n + 1 \in 1 .. Capacity /\ (n + 1) - 1 = n /\ n <= Capacity
        BY <1>1
      <3>2. chain[n] \in Seq(Nodes) /\ Cleared[n] \in Seq(Nodes)
        BY <1>1, <2>2, <3>1
      <3>3. Cleared[n + 1] = chain[n] \o Cleared[n]
        BY <1>6, <3>1
      <3> QED BY <3>2, <3>3, ConcatProperties
    <2> HIDE DEF U
    <2> QED BY <2>1, <2>2, SetInduction
  <1>8. \A n \in 0 .. Capacity : Cleared[n] \in Seq(Nodes)
    <2> TAKE n \in 0 .. Capacity
    <2>1. n \in Nat /\ n <= Capacity
      BY <1>1
    <2> QED BY <1>7, <2>1
  <1> QED BY <1>6, <1>8

\* The lists when hash_clear has been through n buckets.
Halfway(n) == [q \in 0 .. Capacity |->
                  IF q = Capacity THEN Cleared[n] ELSE IF q < n THEN <<>> ELSE chain[q]]

\* All nodes of L are allocated.
InHeap(L) == \A q \in 0 .. Capacity : \A i \in 1 .. Len(L[q]) : L[q][i] \in allocated

\* The loop of hash_clear keeps every node in one list.
LEMMA ClearOwned ==
    ASSUME TypeInv, NodesOwnedOnce, AllocInv
    PROVE  OwnedOnce(Halfway(Capacity)) /\ InHeap(Halfway(Capacity))
  <1> DEFINE T == {n \in Nat : n <= Capacity => OwnedOnce(Halfway(n)) /\ InHeap(Halfway(n))}
  <1>1. Capacity \in Nat
    BY CapacityAssumption
  <1>2. ASSUME NEW n \in 0 .. Capacity
        PROVE  /\ Halfway(n) \in [0 .. Capacity -> Seq(Nodes)]
               /\ Halfway(n)[Capacity] = Cleared[n]
               /\ \A q \in 0 .. Capacity : q # Capacity => Halfway(n)[q] = IF q < n THEN <<>> ELSE chain[q]
    <2>1. \A q \in 0 .. Capacity : q # Capacity => chain[q] \in Seq(Nodes)
      BY ListsLemma DEF TypeInv
    <2>2. Cleared[n] \in Seq(Nodes) /\ <<>> \in Seq(Nodes)
      BY ClearedLemma
    <2>3. Halfway(n) \in [0 .. Capacity -> Seq(Nodes)]
      BY <2>1, <2>2 DEF Halfway
    <2> QED BY <1>1, <2>3 DEF Halfway
  <1>3. Nat \subseteq T
    <2>1. 0 \in T
      <3>1. \A q \in 0 .. Capacity : Halfway(0)[q] = Lists[q]
        <4> TAKE q \in 0 .. Capacity
        <4>1. ~ (q < 0) /\ 0 \in 0 .. Capacity
          BY <1>1
        <4>2. CASE q = Capacity
          BY <1>2, <4>1, <4>2, ListsLemma, ClearedLemma
        <4>3. CASE q # Capacity
          <5>1. q \in Slots /\ Lists[q] = chain[q]
            BY <4>3, ListsLemma
          <5> QED BY <1>2, <4>1, <4>3, <5>1
        <4> QED BY <4>2, <4>3
      <3>2. Halfway(0) = Lists
        BY <1>1, <1>2, <3>1, ListsLemma
      <3> QED BY <3>2, ListsLemma DEF AllocInv, InHeap
    <2>2. ASSUME NEW n \in Nat, n \in T PROVE n + 1 \in T
      <3> SUFFICES ASSUME n + 1 <= Capacity
                   PROVE  OwnedOnce(Halfway(n + 1)) /\ InHeap(Halfway(n + 1))
        OBVIOUS
      <3>1. /\ n \in 0 .. Capacity /\ n + 1 \in 0 .. Capacity /\ n + 1 \in 1 .. Capacity
            /\ Capacity \in 0 .. Capacity /\ n # Capacity /\ n <= Capacity /\ (n + 1) - 1 = n
        BY <1>1
      <3>2. OwnedOnce(Halfway(n)) /\ InHeap(Halfway(n))
        BY <2>2, <3>1
      <3> DEFINE L == Halfway(n)  M == Halfway(n + 1)
      <3>3. L \in [0 .. Capacity -> Seq(Nodes)] /\ M \in [0 .. Capacity -> Seq(Nodes)]
        BY <1>2, <3>1
      <3>4. M[n] = <<>> /\ M[Capacity] = L[n] \o L[Capacity]
        <4>1. M[Capacity] = Cleared[n + 1] /\ L[Capacity] = Cleared[n]
          BY <1>2, <3>1
        <4>2. M[n] = <<>> /\ L[n] = chain[n]
          <5>1. n < n + 1 /\ ~ (n < n)
            OBVIOUS
          <5> QED BY <1>2, <3>1, <5>1
        <4>3. Cleared[n + 1] = chain[n] \o Cleared[n]
          BY <3>1, ClearedLemma
        <4> QED BY <4>1, <4>2, <4>3
      <3>5. \A q \in 0 .. Capacity : q # n /\ q # Capacity => M[q] = L[q]
        <4>1. \A q \in 0 .. Capacity : q # n => (q < n <=> q < n + 1)
          BY <3>1
        <4> QED BY <1>2, <3>1, <4>1
      <3> HIDE DEF L, M
      <3>6. /\ OwnedOnce(M)
            /\ \A q \in 0 .. Capacity : \A i \in 1 .. Len(M[q]) :
                 \E r \in 0 .. Capacity : \E j \in 1 .. Len(L[r]) : M[q][i] = L[r][j]
        <4>1. OwnedOnce(L)
          BY <3>2 DEF L
        <4> QED BY <3>1, <3>3, <3>4, <3>5, <4>1, MoveAll
      <3>7. InHeap(M)
        <4> SUFFICES ASSUME NEW q \in 0 .. Capacity, NEW i \in 1 .. Len(M[q])
                     PROVE  M[q][i] \in allocated
          BY DEF InHeap
        <4>1. PICK r \in 0 .. Capacity : \E j \in 1 .. Len(L[r]) : M[q][i] = L[r][j]
          BY <3>6
        <4>2. PICK j \in 1 .. Len(L[r]) : M[q][i] = L[r][j]
          BY <4>1
        <4>3. InHeap(L)
          BY <3>2 DEF L
        <4> QED BY <4>2, <4>3 DEF InHeap
      <3> QED BY <3>6, <3>7 DEF M
    <2> HIDE DEF T
    <2> QED BY <2>1, <2>2, SetInduction
  <1> QED BY <1>1, <1>3

---------------------------------------------------------------------------
(* What a walk finds.                                                      *)

\* A bucket has an entry with data v.
Holds(p, v) == \E i \in 0 .. Len(chain[p]) : Entry(p, i) = v

\* What a walk for k finds is the entry of its bucket that has the key k.
LEMMA FoundLemma ==
    ASSUME TypeInv, NEW k \in Keys, BucketInv(Pos(k))
    PROVE  /\ Pos(k) \in Slots /\ Found(k) \in Vals \cup {NULL}
           /\ \A v \in Vals : Found(k) = v <=> Holds(Pos(k), v) /\ Key(v) = k
  <1> DEFINE p == Pos(k)
             n == Len(chain[p])
  <1>1. p \in Slots
    BY CapacityAssumption, HashAssumption DEF Pos, Slots
  <1> HIDE DEF p
  <1>2. /\ chain[p] \in Seq(Nodes) /\ n \in Nat /\ slot[p] \in Vals \cup {NULL}
        /\ \A i \in 1 .. n : chain[p][i] \in Nodes /\ data[chain[p][i]] \in Vals \cup {NULL}
    BY <1>1, ElementOfSeq, LenProperties DEF TypeInv
  <1>3. Matching(k) \in SUBSET (1 .. n) /\ \A i \in 1 .. n : i \in Matching(k) <=> IsEntry(data[chain[p][i]], k)
    BY DEF Matching, p
  <1>4. BucketInv(p)
    BY DEF p
  <1>5. \A i \in 1 .. n : Entry(p, i) = data[chain[p][i]] /\ Entry(p, i) # NULL
    BY <1>2, <1>4 DEF Entry, BucketInv
  <1>6. Entry(p, 0) = slot[p] /\ 0 \in 0 .. n /\ 1 .. n \subseteq 0 .. n
    BY <1>2 DEF Entry
  <1>7. ASSUME NEW i \in 0 .. n, NEW j \in 0 .. n, Entry(p, i) # NULL, Entry(p, j) # NULL,
               Key(Entry(p, i)) = Key(Entry(p, j))
        PROVE  i = j
    BY <1>4, <1>7 DEF BucketInv
  <1> DEFINE goal == /\ Found(k) \in Vals \cup {NULL}
                     /\ \A v \in Vals : Found(k) = v <=> Holds(p, v) /\ Key(v) = k
  <1>8. ASSUME NEW i \in 0 .. n, Found(k) = Entry(p, i), IsEntry(Entry(p, i), k)
        PROVE  goal
    <2>1. Entry(p, i) \in Vals /\ Key(Entry(p, i)) = k
      BY <1>2, <1>8, NullAssumption DEF Entry, IsEntry
    <2>2. ASSUME NEW v \in Vals, Holds(p, v), Key(v) = k PROVE Found(k) = v
      <3>1. PICK j \in 0 .. n : Entry(p, j) = v
        BY <2>2 DEF Holds
      <3>2. Entry(p, j) # NULL /\ Entry(p, i) # NULL
        BY <2>1, <3>1, NullAssumption
      <3>3. i = j
        BY <1>7, <2>1, <2>2, <3>1, <3>2
      <3> QED BY <1>8, <3>1, <3>3
    <2>3. Holds(p, Entry(p, i))
      BY DEF Holds
    <2> QED BY <1>8, <2>1, <2>2, <2>3
  <1>9. ASSUME Found(k) = NULL, \A i \in 0 .. n : ~ IsEntry(Entry(p, i), k)
        PROVE  goal
    BY <1>9, NullAssumption DEF Holds, IsEntry
  <1> SUFFICES goal
    BY <1>1 DEF p
  <1> HIDE DEF goal
  <1>10. CASE slot[p] = NULL
    <2>1. chain[p] = <<>>
      BY <1>4, <1>10 DEF BucketInv
    <2>2. n = 0
      BY <2>1, EmptySeq
    <2>3. \A i \in 0 .. n : Entry(p, i) = NULL
      BY <1>6, <1>10, <2>2
    <2>4. Found(k) = NULL
      BY <1>10 DEF Found, p
    <2> QED BY <1>9, <2>3, <2>4 DEF IsEntry
  <1>11. CASE slot[p] # NULL /\ IsEntry(slot[p], k)
    <2>1. Found(k) = slot[p]
      BY <1>11 DEF Found, p
    <2> QED BY <1>6, <1>8, <1>11, <2>1
  <1>12. CASE slot[p] # NULL /\ ~ IsEntry(slot[p], k) /\ Matching(k) # {}
    <2>1. Min(Matching(k)) \in Matching(k)
      BY <1>2, <1>3, <1>12, MinMax
    <2>2. Found(k) = data[chain[p][Min(Matching(k))]]
      BY <1>12 DEF Found, p
    <2>3. Min(Matching(k)) \in 1 .. n /\ IsEntry(data[chain[p][Min(Matching(k))]], k)
      BY <1>3, <2>1
    <2> QED BY <1>5, <1>6, <1>8, <2>2, <2>3
  <1>13. CASE slot[p] # NULL /\ ~ IsEntry(slot[p], k) /\ Matching(k) = {}
    <2>1. Found(k) = NULL
      BY <1>13 DEF Found, p
    <2>2. \A i \in 0 .. n : i = 0 \/ i \in 1 .. n
      BY <1>2
    <2>3. \A i \in 0 .. n : ~ IsEntry(Entry(p, i), k)
      BY <1>3, <1>5, <1>6, <1>13, <2>2
    <2> QED BY <1>9, <2>1, <2>3
  <1> QED BY <1>10, <1>11, <1>12, <1>13

\* What the walk finds for every key.
FoundAll ==
    \A k \in Keys :
        /\ Pos(k) \in Slots /\ Found(k) \in Vals \cup {NULL}
        /\ \A v \in Vals : Found(k) = v <=> Holds(Pos(k), v) /\ Key(v) = k

\* FoundLemma for the states that are reached.
LEMMA FoundInv == HashInv => FoundAll
  <1> SUFFICES ASSUME HashInv, NEW k \in Keys
               PROVE  /\ Pos(k) \in Slots /\ Found(k) \in Vals \cup {NULL}
                      /\ \A v \in Vals : Found(k) = v <=> Holds(Pos(k), v) /\ Key(v) = k
    BY DEF FoundAll
  <1>1. Pos(k) \in Slots
    BY CapacityAssumption, HashAssumption DEF Pos, Slots
  <1> QED BY <1>1, FoundLemma DEF HashInv

\* The lists of the table are a family in which Capacity is the free list.
ListsOK ==
    /\ Lists \in [0 .. Capacity -> Seq(Nodes)] /\ Lists[Capacity] = free
    /\ \A p \in Slots : Lists[p] = chain[p]
    /\ NodesOwnedOnce <=> OwnedOnce(Lists)

\* The lists after a step, seen as a family.
LEMMA NextLists == TypeInv' => ListsOK'
  <1>1. TypeInv => ListsOK
    BY ListsLemma DEF ListsOK
  <1> QED BY <1>1, PTL

\* Removing place k of a list.
LEMMA RemoveAtLemma ==
    ASSUME NEW S, NEW s \in Seq(S), NEW k \in 1 .. Len(s)
    PROVE  /\ RemoveAt(s, k) \in Seq(S) /\ Len(RemoveAt(s, k)) = Len(s) - 1
           /\ \A i \in 1 .. Len(s) - 1 : RemoveAt(s, k)[i] = s[IF i < k THEN i ELSE i + 1]
  <1> DEFINE n == Len(s)
             a == SubSeq(s, 1, k - 1)
             b == SubSeq(s, k + 1, n)
  <1>1. n \in Nat /\ k \in Nat /\ k >= 1 /\ k <= n
    BY LenProperties
  <1>2. a \in Seq(S) /\ Len(a) = k - 1 /\ \A i \in 1 .. k - 1 : a[i] = s[i]
    <2>1. \A i \in 1 .. k - 1 : s[i] \in S
      BY <1>1, ElementOfSeq
    <2>2. /\ a \in Seq(S) /\ Len(a) = IF 1 <= k - 1 THEN (k - 1) - 1 + 1 ELSE 0
          /\ \A i \in 1 .. (k - 1) - 1 + 1 : a[i] = s[1 + i - 1]
      BY <1>1, <2>1, SubSeqProperties
    <2>3. \A i \in 1 .. k - 1 : i \in 1 .. (k - 1) - 1 + 1 /\ 1 + i - 1 = i
      BY <1>1
    <2> QED BY <1>1, <2>2, <2>3
  <1>3. b \in Seq(S) /\ Len(b) = n - k /\ \A i \in 1 .. n - k : b[i] = s[k + i]
    <2>1. \A i \in k + 1 .. n : s[i] \in S
      BY <1>1, ElementOfSeq
    <2>2. /\ b \in Seq(S) /\ Len(b) = IF k + 1 <= n THEN n - (k + 1) + 1 ELSE 0
          /\ \A i \in 1 .. n - (k + 1) + 1 : b[i] = s[(k + 1) + i - 1]
      BY <1>1, <2>1, SubSeqProperties
    <2>3. \A i \in 1 .. n - k : i \in 1 .. n - (k + 1) + 1 /\ (k + 1) + i - 1 = k + i
      BY <1>1
    <2> QED BY <1>1, <2>2, <2>3
  <1> HIDE DEF a, b
  <1>4. RemoveAt(s, k) = a \o b
    BY DEF RemoveAt, a, b
  <1>5. /\ a \o b \in Seq(S) /\ Len(a \o b) = n - 1
        /\ \A i \in 1 .. n - 1 : (a \o b)[i] = IF i <= k - 1 THEN a[i] ELSE b[i - (k - 1)]
    <2>1. /\ a \o b \in Seq(S) /\ Len(a \o b) = Len(a) + Len(b)
          /\ \A i \in 1 .. Len(a) + Len(b) : (a \o b)[i] = IF i <= Len(a) THEN a[i] ELSE b[i - Len(a)]
      BY <1>2, <1>3, ConcatProperties
    <2>2. Len(a) + Len(b) = n - 1
      BY <1>1, <1>2, <1>3
    <2> QED BY <1>2, <2>1, <2>2
  <1>6. ASSUME NEW i \in 1 .. n - 1 PROVE (a \o b)[i] = s[IF i < k THEN i ELSE i + 1]
    <2>1. CASE i < k
      <3>1. i <= k - 1 /\ i \in 1 .. k - 1
        BY <1>1, <2>1
      <3> QED BY <1>2, <1>5, <2>1, <3>1
    <2>2. CASE ~ (i < k)
      <3>1. ~ (i <= k - 1) /\ i - (k - 1) \in 1 .. n - k /\ k + (i - (k - 1)) = i + 1
        BY <1>1, <2>2
      <3> QED BY <1>3, <1>5, <2>2, <3>1
    <2> QED BY <2>1, <2>2
  <1> QED BY <1>4, <1>5, <1>6

---------------------------------------------------------------------------
(* What a step does to a bucket.                                           *)

\* A bucket whose entries are left alone.
LEMMA KeptBucket ==
    ASSUME NEW p, BucketInv(p), slot'[p] = slot[p], chain'[p] = chain[p],
           \A i \in 1 .. Len(chain[p]) : data'[chain[p][i]] = data[chain[p][i]]
    PROVE  BucketInv(p)' /\ \A v : Holds(p, v)' <=> Holds(p, v)
  <1>1. \A i \in 0 .. Len(chain[p]) : i = 0 \/ i \in 1 .. Len(chain[p])
    OBVIOUS
  <1>2. \A i \in 0 .. Len(chain[p]) : Entry(p, i)' = Entry(p, i)
    BY <1>1 DEF Entry
  <1> QED BY <1>2 DEF BucketInv, Holds

\* A bucket that loses its entry m.
LEMMA ShorterBucket ==
    ASSUME NEW p \in Slots, TypeInv, TypeInv', BucketInv(p),
           NEW m \in 0 .. Len(chain[p]), Len(chain[p]) > 0, Entry(p, 0) # NULL,
           Len(chain'[p]) = Len(chain[p]) - 1,
           \A i \in 0 .. Len(chain[p]) - 1 : Entry(p, i)' = Entry(p, IF i < m THEN i ELSE i + 1)
    PROVE  BucketInv(p)' /\ \A v \in Vals : Holds(p, v)' <=> Holds(p, v) /\ v # Entry(p, m)
  <1> DEFINE n == Len(chain[p])
             old(i) == IF i < m THEN i ELSE i + 1
  <1>1. n \in Nat /\ n > 0 /\ Len(chain'[p]) = n - 1 /\ m \in 0 .. n
    BY LenProperties DEF TypeInv
  <1>2. \A i \in 0 .. n - 1 : Entry(p, i)' = Entry(p, old(i))
    OBVIOUS
  <1>3. \A i \in 0 .. n - 1 : old(i) \in 0 .. n /\ old(i) # m
    BY <1>1
  <1>4. \A i, j \in 0 .. n - 1 : old(i) = old(j) => i = j
    BY <1>1
  <1>5. \A j \in 0 .. n : j # m => \E i \in 0 .. n - 1 : old(i) = j
    <2> TAKE j \in 0 .. n
    <2>1. CASE j < m
      <3>1. j \in 0 .. n - 1 /\ old(j) = j
        BY <1>1, <2>1
      <3> QED BY <3>1
    <2>2. CASE j > m
      <3>1. j - 1 \in 0 .. n - 1 /\ old(j - 1) = j
        BY <1>1, <2>2
      <3> QED BY <3>1
    <2> QED BY <1>1, <2>1, <2>2
  <1> HIDE DEF n, old
  <1>6. \A i \in 0 .. n : Entry(p, i) # NULL
    <2> TAKE i \in 0 .. n
    <2>1. CASE i = 0
      BY <2>1
    <2>2. CASE i # 0
      <3>1. i \in 1 .. Len(chain[p])
        BY <1>1, <2>2 DEF n
      <3> QED BY <2>2, <3>1 DEF BucketInv, Entry
    <2> QED BY <2>1, <2>2
  <1>7. \A i, j \in 0 .. n : Key(Entry(p, i)) = Key(Entry(p, j)) => i = j
    BY <1>6 DEF BucketInv, n
  <1>8. \A i \in 0 .. n - 1 : Entry(p, i)' # NULL
    BY <1>2, <1>3, <1>6
  <1>9. BucketInv(p)'
    <2>1. slot'[p] # NULL
      <3>1. 0 \in 0 .. n - 1
        BY <1>1
      <3> QED BY <1>8, <3>1 DEF Entry
    <2>2. ASSUME NEW i \in 1 .. Len(chain'[p]) PROVE data'[chain'[p][i]] # NULL
      <3>1. i \in 0 .. n - 1 /\ i # 0
        BY <1>1
      <3> QED BY <1>8, <3>1 DEF Entry
    <2>3. ASSUME NEW i \in 0 .. Len(chain'[p]), NEW j \in 0 .. Len(chain'[p]),
                 Key(Entry(p, i)') = Key(Entry(p, j)')
          PROVE  i = j
      <3>1. i \in 0 .. n - 1 /\ j \in 0 .. n - 1
        BY <1>1
      <3>2. old(i) = old(j)
        BY <1>2, <1>3, <1>7, <2>3, <3>1
      <3> QED BY <1>4, <3>1, <3>2
    <2> QED BY <2>1, <2>2, <2>3 DEF BucketInv
  <1>10. ASSUME NEW v \in Vals PROVE Holds(p, v)' <=> Holds(p, v) /\ v # Entry(p, m)
    <2>1. ASSUME Holds(p, v)' PROVE Holds(p, v) /\ v # Entry(p, m)
      <3>1. PICK i \in 0 .. n - 1 : Entry(p, i)' = v
        BY <1>1, <2>1 DEF Holds
      <3>2. old(i) \in 0 .. n /\ old(i) # m /\ v = Entry(p, old(i))
        BY <1>2, <1>3, <3>1
      <3>3. v # Entry(p, m)
        BY <1>1, <1>7, <3>2
      <3> QED BY <3>2, <3>3 DEF Holds, n
    <2>2. ASSUME Holds(p, v), v # Entry(p, m) PROVE Holds(p, v)'
      <3>1. PICK j \in 0 .. n : Entry(p, j) = v
        BY <2>2 DEF Holds, n
      <3>2. PICK i \in 0 .. n - 1 : old(i) = j
        BY <1>5, <2>2, <3>1
      <3>3. Entry(p, i)' = v
        BY <1>2, <3>1, <3>2
      <3> QED BY <1>1, <3>3 DEF Holds
    <2> QED BY <2>1, <2>2
  <1> QED BY <1>9, <1>10

---------------------------------------------------------------------------
(* One lemma for each operation: it keeps the invariant, and it changes    *)
(* what the buckets hold as it should.                                     *)

\* The lists and the nodes in use stay as they are.
LEMMA KeptLists ==
    ASSUME HashInv, chain' = chain, free' = free, allocated' = allocated
    PROVE  NodesOwnedOnce' /\ AllocInv'
  <1>1. Lists' = Lists
    BY DEF Lists
  <1> QED BY <1>1 DEF HashInv, NodesOwnedOnce, AllocInv

\* Nothing but the result changes.
LEMMA NothingStep ==
    ASSUME HashInv, UNCHANGED <<slot, chain, data, free, allocated>>
    PROVE  HashInv' /\ \A k \in Keys : Found(k)' = Found(k)
  <1>1. TypeInv'
    BY DEF HashInv, TypeInv
  <1>2. \A p \in Slots : BucketInv(p)'
    BY KeptBucket DEF HashInv
  <1>3. \A k \in Keys : Found(k)' = Found(k)
    BY DEF Found, Matching
  <1> QED BY <1>1, <1>2, <1>3, KeptLists DEF HashInv

\* hash_insert into an empty bucket.
LEMMA FirstStep ==
    ASSUME HashInv, NEW v \in Vals, InsertFirst(v)
    PROVE  /\ HashInv' /\ Found(Key(v)) = NULL /\ result' = v
           /\ \A q \in Slots : \A w \in Vals :
                Holds(q, w)' <=> Holds(q, w) \/ (q = Pos(Key(v)) /\ w = v)
  <1> DEFINE p == Pos(Key(v))
  <1>1. p \in Slots /\ TypeInv /\ BucketInv(p)
    BY KeyAssumption, FoundInv DEF FoundAll, HashInv
  <1> HIDE DEF p
  <1>2. /\ slot[p] = NULL /\ slot' = [slot EXCEPT ![p] = v] /\ result' = v
        /\ chain' = chain /\ data' = data /\ free' = free /\ allocated' = allocated
    BY DEF InsertFirst, p
  <1>3. TypeInv'
    BY <1>1, <1>2 DEF TypeInv
  <1>4. chain[p] = <<>> /\ Len(chain[p]) = 0
    BY <1>1, <1>2, EmptySeq DEF BucketInv
  <1>5. \A q \in Slots : q # p => BucketInv(q)' /\ \A w : Holds(q, w)' <=> Holds(q, w)
    <2> SUFFICES ASSUME NEW q \in Slots, q # p
                 PROVE  BucketInv(q)' /\ \A w : Holds(q, w)' <=> Holds(q, w)
      OBVIOUS
    <2>1. BucketInv(q) /\ slot'[q] = slot[q]
      BY <1>1, <1>2 DEF HashInv, TypeInv
    <2> QED BY <1>2, <2>1, KeptBucket
  <1>6. slot'[p] = v
    BY <1>1, <1>2 DEF TypeInv
  <1>7. v # NULL
    BY NullAssumption
  <1>8. \A i \in 0 .. 0 : i = 0
    OBVIOUS
  <1>9. BucketInv(p)'
    <2>1. chain'[p] = <<>> /\ Len(chain'[p]) = 0 /\ slot'[p] # NULL
      BY <1>2, <1>4, <1>6, <1>7
    <2>2. \A i \in 1 .. 0 : FALSE
      OBVIOUS
    <2> QED BY <1>8, <2>1, <2>2 DEF BucketInv
  <1>10. ASSUME NEW w \in Vals PROVE Holds(p, w)' <=> w = v
    BY <1>2, <1>4, <1>6, <1>8 DEF Holds, Entry
  <1>11. ASSUME NEW w \in Vals PROVE ~ Holds(p, w)
    BY <1>2, <1>4, <1>7, <1>8, NullAssumption DEF Holds, Entry
  <1>12. Found(Key(v)) = NULL
    BY <1>2 DEF Found, p
  <1>13. HashInv'
    BY <1>2, <1>3, <1>5, <1>9, KeptLists DEF HashInv
  <1>14. \A q \in Slots : \A w \in Vals : Holds(q, w)' <=> Holds(q, w) \/ (q = p /\ w = v)
    BY <1>5, <1>10, <1>11
  <1> QED BY <1>2, <1>12, <1>13, <1>14 DEF p

\* hash_alloc_entry returns a node that is in no chain, and takes it off the
\* list of free ones.
LEMMA AllocLemma ==
    ASSUME HashInv, NEW p \in Slots, NEW c \in Available, TypeInv',
           chain' = [chain EXCEPT ![p] = Append(@, c)], free' = FreeAfterAlloc,
           allocated' = allocated \cup {c}
    PROVE  /\ c \in Nodes /\ NodesOwnedOnce' /\ AllocInv'
           /\ \A q \in Slots : \A i \in 1 .. Len(chain[q]) : chain[q][i] # c
  <1>1. TypeInv /\ AllocInv /\ NodesOwnedOnce /\ Capacity \in 0 .. Capacity
    BY CapacityAssumption DEF HashInv
  <1>2. /\ Lists \in [0 .. Capacity -> Seq(Nodes)] /\ Lists[Capacity] = free
        /\ \A q \in Slots : q \in 0 .. Capacity /\ q # Capacity /\ Lists[q] = chain[q]
        /\ \A q \in 0 .. Capacity : q # Capacity => q \in Slots
        /\ OwnedOnce(Lists)
    BY <1>1, ListsLemma
  <1>3. /\ Lists' \in [0 .. Capacity -> Seq(Nodes)] /\ Lists'[Capacity] = free'
        /\ \A q \in Slots : Lists'[q] = chain'[q]
        /\ NodesOwnedOnce' <=> OwnedOnce(Lists')
    BY NextLists DEF ListsOK
  <1>4. Lists'[p] = Append(Lists[p], c) /\ \A q \in Slots : q # p => Lists'[q] = Lists[q]
    BY <1>1, <1>2, <1>3 DEF TypeInv
  <1> DEFINE L == Lists  M == Lists'
  <1>5. CASE free # <<>>
    <2>1. c = Head(L[Capacity]) /\ M[Capacity] = Tail(L[Capacity]) /\ L[Capacity] # <<>>
      BY <1>2, <1>3, <1>5 DEF Available, FreeAfterAlloc
    <2>2. \A q \in 0 .. Capacity : q # p /\ q # Capacity => M[q] = L[q]
      BY <1>2, <1>4
    <2>3. M[p] = Append(L[p], Head(L[Capacity]))
      BY <1>4, <2>1
    <2> HIDE DEF L, M
    <2>4. /\ L \in [0 .. Capacity -> Seq(Nodes)] /\ M \in [0 .. Capacity -> Seq(Nodes)]
          /\ OwnedOnce(L) /\ p \in 0 .. Capacity /\ p # Capacity
      BY <1>2, <1>3 DEF L, M
    <2>5. /\ OwnedOnce(M)
          /\ \A q \in 0 .. Capacity : \A i \in 1 .. Len(M[q]) :
               \E r \in 0 .. Capacity : \E j \in 1 .. Len(L[r]) : M[q][i] = L[r][j]
      BY <1>1, <2>1, <2>2, <2>3, <2>4, MoveToEnd
    <2>6. AllocInv'
      <3> SUFFICES ASSUME NEW q \in 0 .. Capacity, NEW i \in 1 .. Len(M[q])
                   PROVE  M[q][i] \in allocated'
        BY DEF AllocInv, M
      <3>1. PICK r \in 0 .. Capacity : \E j \in 1 .. Len(L[r]) : M[q][i] = L[r][j]
        BY <2>5
      <3>2. PICK j \in 1 .. Len(L[r]) : M[q][i] = L[r][j]
        BY <3>1
      <3>3. L[r][j] \in allocated
        BY <1>1 DEF AllocInv, L
      <3> QED BY <3>2, <3>3
    <2>7. 1 \in 1 .. Len(L[Capacity]) /\ c = L[Capacity][1] /\ c \in Nodes
      BY <1>1, <2>1, <2>4, HeadTailProperties, LenProperties, EmptySeq
    <2>8. ASSUME NEW q \in Slots, NEW i \in 1 .. Len(chain[q]), chain[q][i] = c PROVE FALSE
      <3>1. q \in 0 .. Capacity /\ q # Capacity /\ L[q] = chain[q]
        BY <1>2 DEF L
      <3>2. i \in 1 .. Len(L[q]) /\ L[q][i] = L[Capacity][1]
        BY <2>7, <2>8, <3>1
      <3> QED BY <1>1, <2>4, <2>7, <3>1, <3>2, SamePlace
    <2> QED BY <1>3, <2>5, <2>6, <2>7, <2>8 DEF M
  <1>6. CASE free = <<>>
    <2>1. c \in Nodes /\ c \notin allocated /\ M[Capacity] = L[Capacity]
      BY <1>2, <1>3, <1>6 DEF Available, FreeAfterAlloc
    <2>2. \A q \in 0 .. Capacity : q # p => M[q] = L[q]
      BY <1>2, <1>4, <2>1
    <2>3. Unused(L, c)
      BY <1>1, <2>1 DEF AllocInv, Unused
    <2> HIDE DEF L, M
    <2>4. /\ L \in [0 .. Capacity -> Seq(Nodes)] /\ M \in [0 .. Capacity -> Seq(Nodes)]
          /\ OwnedOnce(L) /\ p \in 0 .. Capacity /\ M[p] = Append(L[p], c)
      BY <1>2, <1>3, <1>4 DEF L, M
    <2>5. OwnedOnce(M) /\ OneMore(M, L, p, Len(L[p]) + 1, c)
      BY <2>1, <2>2, <2>3, <2>4, NewAtEnd
    <2>6. AllocInv'
      <3> SUFFICES ASSUME NEW q \in 0 .. Capacity, NEW i \in 1 .. Len(M[q])
                   PROVE  M[q][i] \in allocated'
        BY DEF AllocInv, M
      <3>1. M[q][i] = c \/ (i \in 1 .. Len(L[q]) /\ M[q][i] = L[q][i])
        BY <2>5 DEF OneMore
      <3>2. i \in 1 .. Len(L[q]) => L[q][i] \in allocated
        BY <1>1 DEF AllocInv, L
      <3> QED BY <3>1, <3>2
    <2>7. \A q \in Slots : \A i \in 1 .. Len(chain[q]) : chain[q][i] # c
      BY <1>2, <2>3 DEF Unused, L
    <2> QED BY <1>3, <2>1, <2>5, <2>6, <2>7 DEF M
  <1> QED BY <1>5, <1>6

\* hash_insert behind the entries of a bucket.
LEMMA ChainStep ==
    ASSUME HashInv, NEW v \in Vals, InsertChain(v)
    PROVE  /\ HashInv' /\ Found(Key(v)) = NULL /\ result' = v
           /\ \A q \in Slots : \A w \in Vals :
                Holds(q, w)' <=> Holds(q, w) \/ (q = Pos(Key(v)) /\ w = v)
  <1> DEFINE p == Pos(Key(v))
  <1>1. /\ p \in Slots /\ TypeInv /\ BucketInv(p) /\ Key(v) \in Keys
        /\ \A w \in Vals : Found(Key(v)) = w <=> Holds(p, w) /\ Key(w) = Key(v)
    BY KeyAssumption, FoundInv DEF FoundAll, HashInv
  <1> HIDE DEF p
  <1>2. /\ Found(Key(v)) = NULL /\ slot[p] # NULL /\ free' = FreeAfterAlloc
        /\ result' = v /\ slot' = slot
    BY DEF InsertChain, p
  <1>3. PICK c \in Available : /\ chain' = [chain EXCEPT ![p] = Append(@, c)]
                                /\ data' = [data EXCEPT ![c] = v]
                                /\ allocated' = allocated \cup {c}
    BY DEF InsertChain, p
  <1>4. PICK n \in Nat : n = Len(chain[p])
    BY <1>1, LenProperties DEF TypeInv
  <1>5. c \in Nodes /\ chain[p] \in Seq(Nodes) /\ n \in Nat
    BY <1>1, HeadTailProperties, LenProperties DEF TypeInv, Available
  <1>6. TypeInv'
    <2>1. FreeAfterAlloc \in Seq(Nodes)
      BY <1>1, HeadTailProperties DEF TypeInv, FreeAfterAlloc
    <2>2. Append(chain[p], c) \in Seq(Nodes)
      BY <1>5, AppendProperties
    <2> QED BY <1>1, <1>2, <1>3, <1>5, <2>1, <2>2 DEF TypeInv
  <1>7. /\ NodesOwnedOnce' /\ AllocInv'
        /\ \A q \in Slots : \A i \in 1 .. Len(chain[q]) : chain[q][i] # c
    BY <1>1, <1>2, <1>3, <1>6, AllocLemma
  <1>8. \A q \in Slots : \A i \in 1 .. Len(chain[q]) : data'[chain[q][i]] = data[chain[q][i]]
    <2> TAKE q \in Slots
    <2> TAKE i \in 1 .. Len(chain[q])
    <2>1. chain[q][i] \in Nodes /\ chain[q][i] # c
      BY <1>1, <1>7, ElementOfSeq, LenProperties DEF TypeInv
    <2> QED BY <1>1, <1>3, <2>1 DEF TypeInv
  <1>9. \A q \in Slots : q # p => BucketInv(q)' /\ \A w : Holds(q, w)' <=> Holds(q, w)
    <2> SUFFICES ASSUME NEW q \in Slots, q # p
                 PROVE  BucketInv(q)' /\ \A w : Holds(q, w)' <=> Holds(q, w)
      OBVIOUS
    <2>1. BucketInv(q) /\ slot'[q] = slot[q] /\ chain'[q] = chain[q]
      BY <1>1, <1>2, <1>3 DEF HashInv, TypeInv
    <2> QED BY <1>8, <2>1, KeptBucket
  <1>10. /\ Len(chain'[p]) = n + 1 /\ chain'[p][n + 1] = c
        /\ \A i \in 1 .. n : chain'[p][i] = chain[p][i]
    <2>1. chain'[p] = Append(chain[p], c)
      BY <1>1, <1>3 DEF TypeInv
    <2> QED BY <1>5, <1>4, <2>1, AppendProperties
  <1>11. \A i \in 0 .. n + 1 : i = 0 \/ i \in 1 .. n \/ i = n + 1
    BY <1>5
  <1>12. \A i \in 0 .. n : Entry(p, i)' = Entry(p, i)
    <2> TAKE i \in 0 .. n
    <2>1. CASE i = 0
      BY <1>2, <2>1 DEF Entry
    <2>2. CASE i \in 1 .. n
      BY <1>1, <1>5, <1>8, <1>10, <2>2, <1>4 DEF Entry
    <2> QED BY <1>5, <2>1, <2>2
  <1>13. Entry(p, n + 1)' = v
    <2>1. data'[c] = v
      BY <1>1, <1>3, <1>5 DEF TypeInv
    <2>2. n + 1 # 0
      BY <1>5
    <2> QED BY <1>10, <2>1, <2>2 DEF Entry
  <1>14. \A i \in 0 .. n + 1 : i \in 0 .. n \/ i = n + 1
    BY <1>5
  <1>15. v # NULL /\ n + 1 \in 0 .. n + 1 /\ 0 .. n \subseteq 0 .. n + 1
    BY <1>5, NullAssumption
  <1>16. \A i \in 0 .. n : Entry(p, i) \in Vals /\ Key(Entry(p, i)) # Key(v)
    <2> TAKE i \in 0 .. n
    <2>1. Entry(p, i) \in Vals
      <3>1. CASE i = 0
        BY <1>1, <1>2, <3>1 DEF TypeInv, Entry
      <3>2. CASE i # 0
        <4>1. i \in 1 .. Len(chain[p])
          BY <1>5, <1>4, <3>2
        <4>2. chain[p][i] \in Nodes /\ data[chain[p][i]] # NULL
          BY <1>1, <1>5, <4>1, ElementOfSeq, <1>4 DEF BucketInv
        <4> QED BY <1>1, <3>2, <4>2 DEF TypeInv, Entry
      <3> QED BY <3>1, <3>2
    <2>2. Holds(p, Entry(p, i))
      BY <1>4 DEF Holds
    <2> QED BY <1>1, <1>2, <2>1, <2>2, NullAssumption
  <1>17. BucketInv(p)'
    <2>1. slot'[p] # NULL
      BY <1>2
    <2>2. ASSUME NEW i \in 1 .. n + 1 PROVE data'[chain'[p][i]] # NULL
      <3>1. i \in 0 .. n + 1 /\ i # 0
        BY <1>5
      <3>2. Entry(p, i)' # NULL
        BY <1>12, <1>13, <1>14, <1>15, <1>16, <3>1, NullAssumption
      <3> QED BY <3>1, <3>2 DEF Entry
    <2>3. ASSUME NEW i \in 0 .. n + 1, NEW j \in 0 .. n + 1, Key(Entry(p, i)') = Key(Entry(p, j)')
          PROVE  i = j
      <3>1. CASE i \in 0 .. n /\ j \in 0 .. n
        <4>1. Key(Entry(p, i)) = Key(Entry(p, j)) /\ Entry(p, i) # NULL /\ Entry(p, j) # NULL
          BY <1>12, <1>16, <2>3, <3>1, NullAssumption
        <4> QED BY <1>1, <3>1, <4>1, <1>4 DEF BucketInv
      <3>2. CASE i = n + 1 /\ j \in 0 .. n
        BY <1>12, <1>13, <1>16, <2>3, <3>2
      <3>3. CASE i \in 0 .. n /\ j = n + 1
        BY <1>12, <1>13, <1>16, <2>3, <3>3
      <3> QED BY <1>14, <3>1, <3>2, <3>3
    <2> QED BY <1>10, <2>1, <2>2, <2>3 DEF BucketInv
  <1>18. ASSUME NEW w \in Vals PROVE Holds(p, w)' <=> Holds(p, w) \/ w = v
    <2>1. Holds(p, w)' <=> \E i \in 0 .. n + 1 : Entry(p, i)' = w
      BY <1>10 DEF Holds
    <2>2. Holds(p, w) <=> \E i \in 0 .. n : Entry(p, i) = w
      BY <1>4 DEF Holds
    <2> QED BY <1>12, <1>13, <1>14, <1>15, <2>1, <2>2
  <1>19. HashInv'
    BY <1>6, <1>7, <1>9, <1>17 DEF HashInv
  <1>20. \A q \in Slots : \A w \in Vals : Holds(q, w)' <=> Holds(q, w) \/ (q = p /\ w = v)
    BY <1>9, <1>18
  <1> QED BY <1>2, <1>19, <1>20 DEF p

\* hash_free_entry puts node m of a chain into the list.
LEMMA FreeLemma ==
    ASSUME HashInv, NEW p \in Slots, NEW m \in 1 .. Len(chain[p]), TypeInv',
           Len(chain'[p]) = Len(chain[p]) - 1,
           \A i \in 1 .. Len(chain[p]) - 1 : chain'[p][i] = chain[p][IF i < m THEN i ELSE i + 1],
           \A q \in Slots : q # p => chain'[q] = chain[q],
           free' = <<chain[p][m]>> \o free, allocated' = allocated
    PROVE  NodesOwnedOnce' /\ AllocInv'
  <1>1. TypeInv /\ AllocInv /\ NodesOwnedOnce /\ Capacity \in 0 .. Capacity
    BY CapacityAssumption DEF HashInv
  <1>2. /\ Lists \in [0 .. Capacity -> Seq(Nodes)] /\ Lists[Capacity] = free
        /\ \A q \in Slots : q \in 0 .. Capacity /\ q # Capacity /\ Lists[q] = chain[q]
        /\ \A q \in 0 .. Capacity : q # Capacity => q \in Slots
        /\ OwnedOnce(Lists)
    BY <1>1, ListsLemma
  <1>3. /\ Lists' \in [0 .. Capacity -> Seq(Nodes)] /\ Lists'[Capacity] = free'
        /\ \A q \in Slots : Lists'[q] = chain'[q]
        /\ NodesOwnedOnce' <=> OwnedOnce(Lists')
    BY NextLists DEF ListsOK
  <1> DEFINE L == Lists  M == Lists'
  <1>4. /\ \A q \in 0 .. Capacity : q # p /\ q # Capacity => M[q] = L[q]
        /\ m \in 1 .. Len(L[p]) /\ Len(M[p]) = Len(L[p]) - 1
        /\ \A i \in 1 .. Len(M[p]) : M[p][i] = L[p][IF i < m THEN i ELSE i + 1]
        /\ M[Capacity] = <<L[p][m]>> \o L[Capacity]
        /\ p \in 0 .. Capacity /\ p # Capacity
    BY <1>2, <1>3
  <1>5. /\ L \in [0 .. Capacity -> Seq(Nodes)] /\ M \in [0 .. Capacity -> Seq(Nodes)]
        /\ OwnedOnce(L)
    BY <1>2, <1>3
  <1> HIDE DEF L, M
  <1>6. /\ OwnedOnce(M)
        /\ \A q \in 0 .. Capacity : \A i \in 1 .. Len(M[q]) :
             \E r \in 0 .. Capacity : \E j \in 1 .. Len(L[r]) : M[q][i] = L[r][j]
    BY <1>1, <1>4, <1>5, MoveToFront
  <1>7. AllocInv'
    <2> SUFFICES ASSUME NEW q \in 0 .. Capacity, NEW i \in 1 .. Len(M[q])
                 PROVE  M[q][i] \in allocated
      BY DEF AllocInv, M
    <2>1. PICK r \in 0 .. Capacity : \E j \in 1 .. Len(L[r]) : M[q][i] = L[r][j]
      BY <1>6
    <2>2. PICK j \in 1 .. Len(L[r]) : M[q][i] = L[r][j]
      BY <2>1
    <2> QED BY <1>1, <2>2 DEF AllocInv, L
  <1> QED BY <1>3, <1>6, <1>7 DEF M

\* Entry m of the bucket of k is taken out: the common part of the two ways
\* to remove an entry.
LEMMA UnlinkStep ==
    ASSUME HashInv, TypeInv', NodesOwnedOnce', AllocInv', NEW k \in Keys, NEW p, p = Pos(k),
           data' = data,
           \A q \in Slots : q # p => slot'[q] = slot[q] /\ chain'[q] = chain[q],
           NEW m \in 0 .. Len(chain[p]), IsEntry(Entry(p, m), k),
           BucketInv(p)' /\ \A w \in Vals : Holds(p, w)' <=> Holds(p, w) /\ w # Entry(p, m),
           result' = Entry(p, m)
    PROVE  /\ HashInv' /\ Found(k) \in Vals /\ result' = Found(k)
           /\ \A q \in Slots : \A w \in Vals :
                Holds(q, w)' <=> Holds(q, w) /\ ~ (q = p /\ w = Found(k))
  <1>1. /\ p \in Slots /\ TypeInv
        /\ \A w \in Vals : Found(k) = w <=> Holds(p, w) /\ Key(w) = k
    BY FoundInv DEF FoundAll, HashInv
  <1>2. chain[p] \in Seq(Nodes) /\ Len(chain[p]) \in Nat
    BY <1>1, LenProperties DEF TypeInv
  <1>3. Entry(p, m) \in Vals /\ Key(Entry(p, m)) = k
    <2>1. CASE m = 0
      BY <1>1, <2>1 DEF TypeInv, IsEntry, Entry
    <2>2. CASE m # 0
      <3>1. chain[p][m] \in Nodes
        BY <1>2, <2>2, ElementOfSeq
      <3> QED BY <1>1, <2>2, <3>1 DEF TypeInv, IsEntry, Entry
    <2> QED BY <2>1, <2>2
  <1>4. Found(k) = Entry(p, m)
    BY <1>1, <1>3 DEF Holds
  <1>5. \A q \in Slots : q # p => BucketInv(q)' /\ \A w : Holds(q, w)' <=> Holds(q, w)
    BY KeptBucket DEF HashInv
  <1>6. HashInv'
    BY <1>5 DEF HashInv
  <1> QED BY <1>3, <1>4, <1>5, <1>6

\* hash_remove of the entry in the table itself.
LEMMA UnlinkFirstStep ==
    ASSUME HashInv, NEW k \in Keys, UnlinkFirst(k)
    PROVE  /\ HashInv' /\ Found(k) \in Vals /\ result' = Found(k)
           /\ \A q \in Slots : \A w \in Vals :
                Holds(q, w)' <=> Holds(q, w) /\ ~ (q = Pos(k) /\ w = Found(k))
  <1>1. PICK p \in Slots : p = Pos(k)
    BY FoundInv DEF FoundAll
  <1>2. TypeInv /\ BucketInv(p)
    BY <1>1 DEF HashInv
  <1>3. PICK n \in Nat : n = Len(chain[p]) /\ chain[p] \in Seq(Nodes)
    BY <1>1, <1>2, LenProperties DEF TypeInv
  <1>4. /\ IsEntry(Entry(p, 0), k) /\ result' = Entry(p, 0) /\ Entry(p, 0) # NULL
        /\ data' = data /\ allocated' = allocated /\ 0 \in 0 .. Len(chain[p])
    BY <1>1, <1>3 DEF UnlinkFirst, Entry, IsEntry
  <1>5. CASE chain[p] # <<>>
    <2>1. /\ slot' = [slot EXCEPT ![p] = data[Head(chain[p])]]
          /\ chain' = [chain EXCEPT ![p] = Tail(@)]
          /\ free' = <<Head(chain[p])>> \o free
      BY <1>1, <1>5 DEF UnlinkFirst
    <2>2. /\ n > 0 /\ Head(chain[p]) = chain[p][1] /\ chain[p][1] \in Nodes
          /\ Tail(chain[p]) \in Seq(Nodes) /\ Len(Tail(chain[p])) = n - 1
          /\ \A i \in 1 .. n - 1 : Tail(chain[p])[i] = chain[p][i + 1]
      BY <1>3, <1>5, HeadTailProperties, LenProperties, EmptySeq, ElementOfSeq
    <2>3. TypeInv'
      <3>1. <<Head(chain[p])>> \o free \in Seq(Nodes)
        BY <1>2, <2>2, ConcatProperties DEF TypeInv
      <3> QED BY <1>2, <1>4, <2>1, <2>2, <3>1 DEF TypeInv
    <2>4. /\ slot'[p] = data[chain[p][1]] /\ chain'[p] = Tail(chain[p])
          /\ \A q \in Slots : q # p => slot'[q] = slot[q] /\ chain'[q] = chain[q]
      BY <1>2, <2>1, <2>2 DEF TypeInv
    <2>5. NodesOwnedOnce' /\ AllocInv'
      <3>1. 1 \in 1 .. Len(chain[p]) /\ Len(chain'[p]) = Len(chain[p]) - 1
        BY <1>3, <2>2, <2>4
      <3>2. \A i \in 1 .. Len(chain[p]) - 1 : chain'[p][i] = chain[p][IF i < 1 THEN i ELSE i + 1]
        BY <1>3, <2>2, <2>4
      <3>3. free' = <<chain[p][1]>> \o free
        BY <2>1, <2>2
      <3> QED BY <1>4, <2>3, <2>4, <3>1, <3>2, <3>3, FreeLemma
    <2>6. BucketInv(p)' /\ \A w \in Vals : Holds(p, w)' <=> Holds(p, w) /\ w # Entry(p, 0)
      <3>1. Len(chain'[p]) = Len(chain[p]) - 1 /\ Len(chain[p]) > 0
        BY <1>3, <2>2, <2>4
      <3>2. \A i \in 0 .. Len(chain[p]) - 1 : Entry(p, i)' = Entry(p, IF i < 0 THEN i ELSE i + 1)
        <4> SUFFICES ASSUME NEW i \in 0 .. n - 1 PROVE Entry(p, i)' = Entry(p, i + 1)
          BY <1>3
        <4>1. i + 1 # 0 /\ (i = 0 \/ i \in 1 .. n - 1)
          BY <1>3
        <4> QED BY <1>4, <2>2, <2>4, <4>1 DEF Entry
      <3> QED BY <1>2, <1>4, <2>3, <3>1, <3>2, ShorterBucket
    <2> QED BY <1>1, <1>4, <2>3, <2>4, <2>5, <2>6, UnlinkStep
  <1>6. CASE chain[p] = <<>>
    <2>1. slot' = [slot EXCEPT ![p] = NULL] /\ chain' = chain /\ free' = free
      BY <1>1, <1>6 DEF UnlinkFirst
    <2>2. TypeInv' /\ slot'[p] = NULL
      BY <1>2, <1>4, <2>1 DEF TypeInv
    <2>3. NodesOwnedOnce' /\ AllocInv'
      BY <1>4, <2>1, KeptLists
    <2>4. \A q \in Slots : q # p => slot'[q] = slot[q] /\ chain'[q] = chain[q]
      BY <1>2, <2>1 DEF TypeInv
    <2>5. Len(chain[p]) = 0 /\ (\A i \in 1 .. 0 : FALSE) /\ (\A i \in 0 .. 0 : i = 0) /\ 0 \in 0 .. 0
      BY <1>6, EmptySeq
    <2>6. BucketInv(p)'
      BY <1>6, <2>1, <2>2, <2>5 DEF BucketInv, Entry
    <2>7. ASSUME NEW w \in Vals PROVE Holds(p, w)' <=> Holds(p, w) /\ w # Entry(p, 0)
      <3>1. Holds(p, w)' <=> w = NULL
        BY <2>1, <2>2, <2>5 DEF Holds, Entry
      <3>2. Holds(p, w) <=> w = Entry(p, 0)
        BY <2>5 DEF Holds
      <3> QED BY <3>1, <3>2, NullAssumption
    <2> QED BY <1>1, <1>4, <2>2, <2>3, <2>4, <2>6, <2>7, UnlinkStep
  <1> QED BY <1>5, <1>6

\* hash_remove of a node within a chain.
LEMMA UnlinkNodeStep ==
    ASSUME HashInv, NEW k \in Keys, UnlinkNode(k)
    PROVE  /\ HashInv' /\ Found(k) \in Vals /\ result' = Found(k)
           /\ \A q \in Slots : \A w \in Vals :
                Holds(q, w)' <=> Holds(q, w) /\ ~ (q = Pos(k) /\ w = Found(k))
  <1>1. PICK p \in Slots : p = Pos(k)
    BY FoundInv DEF FoundAll
  <1>2. TypeInv /\ BucketInv(p)
    BY <1>1 DEF HashInv
  <1>3. PICK n \in Nat : n = Len(chain[p]) /\ chain[p] \in Seq(Nodes)
    BY <1>1, <1>2, LenProperties DEF TypeInv
  <1>4. PICK m \in 1 .. n : m = Min(Matching(k)) /\ m \in Matching(k)
    <2>1. Matching(k) \in SUBSET (1 .. n) /\ Matching(k) # {}
      BY <1>1, <1>3 DEF UnlinkNode, Matching
    <2> QED BY <2>1, MinMax
  <1>5. /\ slot[p] # NULL /\ result' = data[chain[p][m]]
        /\ chain' = [chain EXCEPT ![p] = RemoveAt(@, m)]
        /\ free' = <<chain[p][m]>> \o free
        /\ slot' = slot /\ data' = data /\ allocated' = allocated
    BY <1>1, <1>4 DEF UnlinkNode
  <1>6. /\ m \in 0 .. Len(chain[p]) /\ m \in 1 .. Len(chain[p]) /\ n > 0 /\ m # 0
        /\ chain[p][m] \in Nodes
    BY <1>3, <1>4, ElementOfSeq
  <1>7. /\ IsEntry(Entry(p, m), k) /\ result' = Entry(p, m) /\ Entry(p, 0) # NULL
    BY <1>1, <1>4, <1>5, <1>6 DEF Matching, Entry
  <1>8. /\ RemoveAt(chain[p], m) \in Seq(Nodes) /\ Len(RemoveAt(chain[p], m)) = n - 1
        /\ \A i \in 1 .. n - 1 : RemoveAt(chain[p], m)[i] = chain[p][IF i < m THEN i ELSE i + 1]
    BY <1>3, <1>6, RemoveAtLemma
  <1>9. TypeInv'
    <2>1. <<chain[p][m]>> \o free \in Seq(Nodes)
      BY <1>2, <1>6, ConcatProperties DEF TypeInv
    <2> QED BY <1>2, <1>5, <1>8, <2>1 DEF TypeInv
  <1>10. /\ chain'[p] = RemoveAt(chain[p], m)
         /\ \A q \in Slots : q # p => slot'[q] = slot[q] /\ chain'[q] = chain[q]
    BY <1>2, <1>5 DEF TypeInv
  <1>11. Len(chain'[p]) = Len(chain[p]) - 1 /\ Len(chain[p]) > 0
    BY <1>3, <1>6, <1>8, <1>10
  <1>12. NodesOwnedOnce' /\ AllocInv'
    <2>1. \A i \in 1 .. Len(chain[p]) - 1 : chain'[p][i] = chain[p][IF i < m THEN i ELSE i + 1]
      BY <1>3, <1>8, <1>10
    <2> QED BY <1>5, <1>6, <1>9, <1>10, <1>11, <2>1, FreeLemma
  <1>13. BucketInv(p)' /\ \A w \in Vals : Holds(p, w)' <=> Holds(p, w) /\ w # Entry(p, m)
    <2>1. \A i \in 0 .. Len(chain[p]) - 1 : Entry(p, i)' = Entry(p, IF i < m THEN i ELSE i + 1)
      <3> SUFFICES ASSUME NEW i \in 0 .. n - 1
                   PROVE  Entry(p, i)' = Entry(p, IF i < m THEN i ELSE i + 1)
        BY <1>3
      <3>1. CASE i = 0
        <4>1. i < m
          BY <1>4, <3>1
        <4> QED BY <1>5, <3>1, <4>1 DEF Entry
      <3>2. CASE i # 0
        <4>1. i \in 1 .. n - 1 /\ (IF i < m THEN i ELSE i + 1) # 0
          BY <1>3, <3>2
        <4> QED BY <1>5, <1>8, <1>10, <3>2, <4>1 DEF Entry
      <3> QED BY <3>1, <3>2
    <2> QED BY <1>2, <1>6, <1>7, <1>9, <1>11, <2>1, ShorterBucket
  <1> QED BY <1>1, <1>5, <1>6, <1>7, <1>9, <1>10, <1>12, <1>13, UnlinkStep

\* hash_clear and hash_destroy leave empty buckets.
LEMMA EmptyBuckets ==
    ASSUME slot' = [p \in Slots |-> NULL], chain' = [p \in Slots |-> <<>>]
    PROVE  /\ \A p \in Slots : BucketInv(p)' /\ chain'[p] = <<>>
           /\ \A k \in Keys : Found(k)' = NULL
  <1>1. ASSUME NEW p \in Slots PROVE BucketInv(p)' /\ chain'[p] = <<>>
    <2>1. slot'[p] = NULL /\ chain'[p] = <<>> /\ Len(chain'[p]) = 0
      BY EmptySeq
    <2>2. (\A i \in 1 .. 0 : FALSE) /\ (\A i \in 0 .. 0 : i = 0)
      OBVIOUS
    <2> QED BY <2>1, <2>2 DEF BucketInv
  <1>2. ASSUME NEW k \in Keys PROVE Found(k)' = NULL
    <2>1. Pos(k) \in Slots
      BY CapacityAssumption, HashAssumption DEF Pos, Slots
    <2> QED BY <2>1 DEF Found
  <1> QED BY <1>1, <1>2

\* hash_clear keeps the nodes, in the list.
LEMMA ClearStep ==
    ASSUME HashInv, hash_clear
    PROVE  HashInv' /\ \A k \in Keys : Found(k)' = NULL
  <1>1. /\ slot' = [p \in Slots |-> NULL] /\ chain' = [p \in Slots |-> <<>>]
        /\ free' = Cleared[Capacity] /\ data' = data /\ allocated' = allocated
    BY DEF hash_clear
  <1>2. TypeInv /\ AllocInv /\ NodesOwnedOnce /\ Capacity \in 0 .. Capacity /\ Capacity \in Nat
    BY CapacityAssumption DEF HashInv
  <1>3. TypeInv'
    <2>1. Cleared[Capacity] \in Seq(Nodes) /\ <<>> \in Seq(Nodes)
      BY <1>2, ClearedLemma
    <2> QED BY <1>1, <1>2, <2>1 DEF TypeInv
  <1>4. Lists' = Halfway(Capacity)
    <2>1. \A q \in 0 .. Capacity : q # Capacity => q < Capacity /\ q \in Slots
      BY <1>2 DEF Slots
    <2> QED BY <1>1, <2>1 DEF Lists, Halfway
  <1>5. OwnedOnce(Lists') /\ InHeap(Lists')
    BY <1>2, <1>4, ClearOwned
  <1>6. NodesOwnedOnce' /\ AllocInv'
    BY <1>1, <1>3, <1>5, NextLists DEF ListsOK, InHeap, AllocInv
  <1> QED BY <1>1, <1>3, <1>6, EmptyBuckets DEF HashInv

\* hash_destroy gives the nodes back.
LEMMA DestroyStep ==
    ASSUME HashInv, hash_destroy
    PROVE  HashInv' /\ \A k \in Keys : Found(k)' = NULL
  <1>1. /\ slot' = [p \in Slots |-> NULL] /\ chain' = [p \in Slots |-> <<>>]
        /\ free' = <<>> /\ data' = data /\ allocated' \subseteq allocated
    BY DEF hash_destroy
  <1>2. TypeInv' 
    <2>1. <<>> \in Seq(Nodes)
      OBVIOUS
    <2> QED BY <1>1, <2>1 DEF HashInv, TypeInv
  <1>3. \A q \in 0 .. Capacity : Lists'[q] = <<>> /\ Len(Lists'[q]) = 0
    <2> TAKE q \in 0 .. Capacity
    <2>1. q # Capacity => q \in Slots
      BY CapacityAssumption DEF Slots
    <2>2. Lists'[q] = <<>>
      BY <1>1, <2>1 DEF Lists
    <2> QED BY <2>2, EmptySeq
  <1>4. \A i \in 1 .. 0 : FALSE
    OBVIOUS
  <1>5. NodesOwnedOnce' /\ AllocInv'
    BY <1>3, <1>4 DEF NodesOwnedOnce, AllocInv
  <1> QED BY <1>1, <1>2, <1>5, EmptyBuckets DEF HashInv

---------------------------------------------------------------------------
(* Theorems.                                                               *)

\* A new table satisfies the invariant, and holds nothing.
LEMMA InitInv == Init => HashInv /\ \A k \in Keys : Found(k) = NULL
  <1> SUFFICES ASSUME Init PROVE HashInv /\ \A k \in Keys : Found(k) = NULL
    OBVIOUS
  <1> USE DEF Init
  <1>1. TypeInv
    <2>1. <<>> \in Seq(Nodes)
      OBVIOUS
    <2> QED BY <2>1 DEF TypeInv
  <1>2. \A q \in 0 .. Capacity : Len(Lists[q]) = 0
    <2> TAKE q \in 0 .. Capacity
    <2>1. q # Capacity => q \in Slots
      BY CapacityAssumption DEF Slots
    <2>2. Lists[q] = <<>>
      BY <2>1 DEF Lists
    <2> QED BY <2>2, EmptySeq
  <1>3. (\A i \in 1 .. 0 : FALSE) /\ (\A i \in 0 .. 0 : i = 0)
    OBVIOUS
  <1>4. NodesOwnedOnce /\ AllocInv
    BY <1>2, <1>3 DEF NodesOwnedOnce, AllocInv
  <1>5. ASSUME NEW p \in Slots PROVE BucketInv(p)
    <2>1. slot[p] = NULL /\ chain[p] = <<>> /\ Len(chain[p]) = 0
      BY EmptySeq
    <2> QED BY <1>3, <2>1 DEF BucketInv
  <1>6. ASSUME NEW k \in Keys PROVE Found(k) = NULL
    <2>1. Pos(k) \in Slots
      BY CapacityAssumption, HashAssumption DEF Pos, Slots
    <2> QED BY <2>1 DEF Found
  <1> QED BY <1>1, <1>4, <1>5, <1>6 DEF HashInv

\* Every operation keeps the invariant.
LEMMA NextInv == HashInv /\ [Next]_vars => HashInv'
  <1> SUFFICES ASSUME HashInv, [Next]_vars PROVE HashInv'
    OBVIOUS
  <1>1. ASSUME NEW v \in Vals, InsertFound(v) PROVE HashInv'
    BY <1>1, NothingStep DEF InsertFound
  <1>2. ASSUME NEW v \in Vals, InsertFirst(v) PROVE HashInv'
    BY <1>2, FirstStep
  <1>3. ASSUME NEW v \in Vals, InsertChain(v) PROVE HashInv'
    BY <1>3, ChainStep
  <1>4. ASSUME NEW k \in Keys, hash_lookup(k) \/ RemoveAbsent(k) PROVE HashInv'
    BY <1>4, NothingStep DEF hash_lookup, RemoveAbsent
  <1>5. ASSUME NEW k \in Keys, UnlinkFirst(k) PROVE HashInv'
    BY <1>5, UnlinkFirstStep
  <1>6. ASSUME NEW k \in Keys, UnlinkNode(k) PROVE HashInv'
    BY <1>6, UnlinkNodeStep
  <1>7. CASE hash_clear
    BY <1>7, ClearStep
  <1>8. CASE hash_destroy
    BY <1>8, DestroyStep
  <1>9. CASE UNCHANGED vars
    BY <1>9, NothingStep DEF vars
  <1> QED BY <1>1, <1>2, <1>3, <1>4, <1>5, <1>6, <1>7, <1>8, <1>9 DEF Next

\* The invariant holds in every reachable state.
LEMMA AlwaysInv == Spec => []HashInv
  <1>1. Init => HashInv
    BY InitInv
  <1> QED BY <1>1, NextInv, PTL DEF Spec

\* No node is in two chains, or in a chain and free, or twice in either, for any
\* number of buckets and nodes and any hash function, however entries are
\* inserted, removed from the front or from within a chain, and cleared.
THEOREM NodesOwned == Spec => []NodesOwnedOnce
  <1>1. HashInv => NodesOwnedOnce
    BY DEF HashInv
  <1> QED BY <1>1, AlwaysInv, PTL

\* The map that the table is seen as.
MapOf == [k \in Keys |-> Found(k)]

\* The map after a step that changes what the buckets hold for the key k only.
LEMMA MapStep ==
    ASSUME HashInv, HashInv', NEW k \in Keys, NEW x \in Vals \cup {NULL},
           Found(k)' = x,
           \A j \in Keys : \A w \in Vals :
               j # k /\ Key(w) = j => (Holds(Pos(j), w)' <=> Holds(Pos(j), w))
    PROVE  MapOf' = [MapOf EXCEPT ![k] = x]
  <1>1. FoundAll /\ FoundAll'
    <2>1. HashInv' => FoundAll'
      BY FoundInv, PTL
    <2> QED BY <2>1, FoundInv
  <1>2. ASSUME NEW j \in Keys, j # k PROVE Found(j)' = Found(j)
    <2>1. Found(j) \in Vals \cup {NULL} /\ Found(j)' \in Vals \cup {NULL}
      BY <1>1 DEF FoundAll, Pos
    <2>2. ASSUME NEW w \in Vals PROVE Found(j) = w <=> Found(j)' = w
      BY <1>1, <1>2 DEF FoundAll, Pos
    <2> QED BY <2>1, <2>2
  <1> QED BY <1>2 DEF MapOf

\* Every operation on the table is one on the map, whether the bucket has
\* other entries or not.
LEMMA MapNext ==
    ASSUME HashInv, HashInv', [Next]_vars
    PROVE  [Map!Next]_<<MapOf, result>>
  <1>1. \A k \in Keys : MapOf[k] = Found(k)
    BY DEF MapOf
  <1>2. ASSUME \A k \in Keys : Found(k)' = Found(k) PROVE MapOf' = MapOf
    BY <1>2 DEF MapOf
  <1>3. FoundAll /\ FoundAll'
    <2>1. HashInv' => FoundAll'
      BY FoundInv, PTL
    <2> QED BY <2>1, FoundInv
  <1>4. ASSUME NEW v \in Vals, InsertFound(v) PROVE Map!Insert(v)
    <2>1. MapOf' = MapOf /\ MapOf[Key(v)] # NULL /\ result' = MapOf[Key(v)]
      BY <1>1, <1>2, <1>4, NothingStep, KeyAssumption DEF InsertFound
    <2> QED BY <2>1 DEF Map!Insert, MapOf
  <1>5. ASSUME NEW v \in Vals, InsertFirst(v) \/ InsertChain(v) PROVE Map!Insert(v)
    <2>1. /\ Found(Key(v)) = NULL /\ result' = v
          /\ \A q \in Slots : \A w \in Vals :
               Holds(q, w)' <=> Holds(q, w) \/ (q = Pos(Key(v)) /\ w = v)
      BY <1>5, FirstStep, ChainStep
    <2>2. Key(v) \in Keys /\ \A j \in Keys : Pos(j) \in Slots
      BY <1>3, KeyAssumption DEF FoundAll
    <2>3. Found(Key(v))' = v
      BY <1>3, <2>1, <2>2 DEF FoundAll, Pos
    <2>4. \A j \in Keys : \A w \in Vals :
            j # Key(v) /\ Key(w) = j => (Holds(Pos(j), w)' <=> Holds(Pos(j), w))
      BY <2>1, <2>2
    <2>5. MapOf' = [MapOf EXCEPT ![Key(v)] = v]
      BY <2>2, <2>3, <2>4, MapStep
    <2>6. MapOf[Key(v)] = NULL /\ MapOf'[Key(v)] = v
      BY <1>1, <2>1, <2>2, <2>5 DEF MapOf
    <2> QED BY <2>1, <2>5, <2>6 DEF Map!Insert, MapOf
  <1>6. ASSUME NEW k \in Keys, hash_lookup(k) PROVE Map!Lookup(k)
    <2>1. MapOf' = MapOf /\ result' = MapOf[k]
      BY <1>1, <1>2, <1>6, NothingStep DEF hash_lookup
    <2> QED BY <2>1 DEF Map!Lookup, MapOf
  <1>7. ASSUME NEW k \in Keys, RemoveAbsent(k) PROVE Map!Remove(k)
    <2>1. MapOf' = MapOf /\ result' = NULL /\ MapOf[k] = NULL
      BY <1>1, <1>2, <1>7, NothingStep DEF RemoveAbsent
    <2>2. [MapOf EXCEPT ![k] = NULL] = MapOf
      BY <2>1 DEF MapOf
    <2> QED BY <2>1, <2>2 DEF Map!Remove, MapOf
  <1>8. ASSUME NEW k \in Keys, UnlinkFirst(k) \/ UnlinkNode(k) PROVE Map!Remove(k)
    <2>1. /\ Found(k) \in Vals /\ result' = Found(k)
          /\ \A q \in Slots : \A w \in Vals :
               Holds(q, w)' <=> Holds(q, w) /\ ~ (q = Pos(k) /\ w = Found(k))
      BY <1>8, UnlinkFirstStep, UnlinkNodeStep
    <2>2. /\ \A j \in Keys : Pos(j) \in Slots
          /\ Key(Found(k)) = k /\ Found(k)' \in Vals \cup {NULL}
      BY <1>3, <2>1 DEF FoundAll, Pos
    <2>3. Found(k)' = NULL
      <3> SUFFICES ASSUME Found(k)' \in Vals PROVE FALSE
        BY <2>2
      <3>1. PICK w \in Vals : w = Found(k)'
        OBVIOUS
      <3>2. Holds(Pos(k), w)' /\ Key(w) = k
        BY <1>3, <3>1 DEF FoundAll, Pos
      <3>3. Holds(Pos(k), w) /\ w # Found(k)
        BY <2>1, <2>2, <3>2 DEF Pos
      <3> QED BY <1>3, <3>2, <3>3 DEF FoundAll
    <2>4. \A j \in Keys : \A w \in Vals :
            j # k /\ Key(w) = j => (Holds(Pos(j), w)' <=> Holds(Pos(j), w))
      BY <2>1, <2>2
    <2>5. MapOf' = [MapOf EXCEPT ![k] = NULL]
      BY <2>3, <2>4, MapStep
    <2> QED BY <1>1, <2>1, <2>5 DEF Map!Remove, MapOf
  <1>9. CASE hash_clear \/ hash_destroy
    <2>1. /\ \A k \in Keys : Found(k)' = NULL
          /\ result' = NULL
      BY <1>9, ClearStep, DestroyStep DEF hash_clear, hash_destroy
    <2>2. MapOf' = [k \in Keys |-> NULL]
      BY <2>1 DEF MapOf
    <2>3. Map!Clear
      BY <2>1, <2>2 DEF Map!Clear, MapOf
    <2> QED BY <2>3 DEF Map!Next
  <1>10. CASE UNCHANGED vars
    <2>1. MapOf' = MapOf /\ result' = result
      BY <1>2, <1>10, NothingStep DEF vars
    <2> QED BY <2>1
  <1>11. ASSUME NEW v \in Vals, InsertFound(v) \/ InsertFirst(v) \/ InsertChain(v) PROVE Map!Next
    BY <1>4, <1>5, <1>11 DEF Map!Next
  <1>12. ASSUME NEW k \in Keys, hash_lookup(k) \/ RemoveAbsent(k) \/ UnlinkFirst(k) \/ UnlinkNode(k)
         PROVE  Map!Next
    BY <1>6, <1>7, <1>8, <1>12 DEF Map!Next
  <1> QED BY <1>9, <1>10, <1>11, <1>12 DEF Next

\* Collisions, reused nodes, the move of the next entry to the first place when
\* the first is removed, and clearing cannot be noticed: the table implements
\* the map of HashMap, for any hash function.
THEOREM TableImplementsMap == Spec => IsAMap
  <1>1. Init => Map!Init
    <2> SUFFICES ASSUME Init PROVE Map!Init
      OBVIOUS
    <2>1. MapOf = [k \in Keys |-> NULL] /\ result = NULL
      BY InitInv DEF MapOf, Init
    <2> QED BY <2>1 DEF Map!Init, MapOf
  <1>2. HashInv /\ HashInv' /\ [Next]_vars => [Map!Next]_<<MapOf, result>>
    BY MapNext
  <1> QED BY <1>1, <1>2, AlwaysInv, PTL DEF Spec, IsAMap, Map!Spec, MapOf
===========================================================================
