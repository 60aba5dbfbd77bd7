----------------------- MODULE DefinitionPool_proofs -----------------------
(***************************************************************************)
(* Proofs about DefinitionPool, for every set of blocks and definitions    *)
(* and every bound: no block is owned twice or lost, the queue keeps the   *)
(* order of the symbols, and what parse() hands out is complete.           *)
(***************************************************************************)
EXTENDS DefinitionPool, StackLemmas, SequenceTheorems, TLAPS

Pools == [Places -> Seq(Blocks)]

\* The elements of a concatenation, without subtraction.
LEMMA ConcatElements ==
    ASSUME NEW S, NEW s \in Seq(S), NEW t \in Seq(S)
    PROVE  /\ s \o t \in Seq(S)
           /\ Len(s) \in Nat /\ Len(t) \in Nat
           /\ Len(s \o t) = Len(s) + Len(t)
           /\ \A i \in 1 .. Len(s) : i \in 1 .. Len(s \o t) /\ (s \o t)[i] = s[i]
           /\ \A i \in 1 .. Len(t) : Len(s) + i \in 1 .. Len(s \o t) /\ (s \o t)[Len(s) + i] = t[i]
           /\ \A k \in 1 .. Len(s \o t) :
                 \/ k \in 1 .. Len(s) /\ (s \o t)[k] = s[k]
                 \/ \E i \in 1 .. Len(t) : k = Len(s) + i /\ (s \o t)[k] = t[i]
  <1> DEFINE m == Len(s)  n == Len(t)
  <1>1. m \in Nat /\ n \in Nat
    BY LenProperties
  <1>2. /\ s \o t \in Seq(S)
        /\ Len(s \o t) = m + n
        /\ \A i \in 1 .. m + n : (s \o t)[i] = IF i <= m THEN s[i] ELSE t[i - m]
    BY ConcatProperties
  <1> HIDE DEF m, n
  <1>3. \A i \in 1 .. m : i \in 1 .. m + n /\ (s \o t)[i] = s[i]
    BY <1>1, <1>2
  <1>4. ASSUME NEW i \in 1 .. n
        PROVE  m + i \in 1 .. m + n /\ (s \o t)[m + i] = t[i]
    <2>1. m + i \in 1 .. m + n /\ ~(m + i <= m) /\ (m + i) - m = i
      BY <1>1
    <2> QED
      BY <2>1, <1>2
  <1>5. ASSUME NEW k \in 1 .. m + n, k \notin 1 .. m
        PROVE  \E i \in 1 .. n : k = m + i /\ (s \o t)[k] = t[i]
    <2>1. k - m \in 1 .. n /\ k = m + (k - m)
      BY <1>1, <1>5
    <2> QED
      BY <2>1, <1>4
  <1>6. \A k \in 1 .. m + n : \/ k \in 1 .. m /\ (s \o t)[k] = s[k]
                             \/ \E i \in 1 .. n : k = m + i /\ (s \o t)[k] = t[i]
    BY <1>3, <1>5
  <1> QED
    BY <1>1, <1>2, <1>3, <1>4, <1>6 DEF m, n

\* Recycling the blocks of a definition keeps every block, and keeps it in
\* one list only.
LEMMA EmptiedLemma ==
    ASSUME NEW P \in Pools, Owned(P), NEW p \in Places, p # "blocks"
    PROVE  /\ Emptied(P, p) \in Pools
           /\ Owned(Emptied(P, p))
           /\ Held(Emptied(P, p)) = Held(P)
           /\ Emptied(P, p)[p] = <<>>
           /\ \A q \in Places \ {"blocks", p} : Emptied(P, p)[q] = P[q]
  <1> DEFINE Q == Emptied(P, p)
             s == P["blocks"]
             t == P[p]
             u == s \o t
             B == "blocks"
  <1>1. B \in Places /\ B # p
    BY DEF Places
  <1>2. s \in Seq(Blocks) /\ t \in Seq(Blocks)
    BY <1>1 DEF Pools
  <1>3. /\ u \in Seq(Blocks) /\ Len(s) \in Nat /\ Len(t) \in Nat
        /\ Len(u) = Len(s) + Len(t)
        /\ \A i \in 1 .. Len(s) : i \in 1 .. Len(u) /\ u[i] = s[i]
        /\ \A i \in 1 .. Len(t) : Len(s) + i \in 1 .. Len(u) /\ u[Len(s) + i] = t[i]
        /\ \A k \in 1 .. Len(u) :
              \/ k \in 1 .. Len(s) /\ u[k] = s[k]
              \/ \E i \in 1 .. Len(t) : k = Len(s) + i /\ u[k] = t[i]
    <2> HIDE DEF s, t
    <2> QED
      BY <1>2, ConcatElements
  <1>4. /\ Q[B] = u /\ Q[p] = <<>> /\ P[B] = s /\ P[p] = t
        /\ \A q \in Places \ {B, p} : Q[q] = P[q]
    BY <1>1 DEF Emptied, Pools
  <1>5. Q \in Pools
    <2>1. <<>> \in Seq(Blocks)
      OBVIOUS
    <2> QED
      BY <2>1, <1>1, <1>3 DEF Emptied, Pools
  <1>6. 1 .. Len(Q[p]) = {}
    BY <1>4
  <1> HIDE DEF Q, s, t, u, B
  <1>9. ASSUME NEW k \in 1 .. Len(u)
        PROVE  \/ k \in 1 .. Len(s) /\ u[k] = s[k]
               \/ \E i \in 1 .. Len(t) : k = Len(s) + i /\ u[k] = t[i]
    BY <1>3
  <1>7. Owned(Q)
    <2>1. /\ \A k, m \in 1 .. Len(s) : s[k] = s[m] => k = m
          /\ \A k, m \in 1 .. Len(t) : t[k] = t[m] => k = m
          /\ \A k \in 1 .. Len(s), m \in 1 .. Len(t) : s[k] # t[m]
      BY <1>1, <1>4 DEF Owned
    <2>2. \A c \in Places \ {B, p} : \A m \in 1 .. Len(P[c]) :
             /\ \A k \in 1 .. Len(s) : s[k] # P[c][m]
             /\ \A k \in 1 .. Len(t) : t[k] # P[c][m]
      BY <1>1, <1>4 DEF Owned
    <2>3. ASSUME NEW k \in 1 .. Len(u), NEW m \in 1 .. Len(u), u[k] = u[m]
          PROVE  k = m
      <3>1. CASE k \in 1 .. Len(s) /\ u[k] = s[k]
        <4>1. m \in 1 .. Len(s) /\ u[m] = s[m]
          BY <3>1, <2>1, <2>3, <1>9
        <4> QED
          BY <3>1, <4>1, <2>1, <2>3
      <3>2. CASE \E i \in 1 .. Len(t) : k = Len(s) + i /\ u[k] = t[i]
        <4>1. PICK i \in 1 .. Len(t) : k = Len(s) + i /\ u[k] = t[i]
          BY <3>2
        <4>2. ~(m \in 1 .. Len(s) /\ u[m] = s[m])
          BY <4>1, <2>1, <2>3
        <4>3. PICK j \in 1 .. Len(t) : m = Len(s) + j /\ u[m] = t[j]
          BY <4>2, <1>9
        <4> QED
          BY <4>1, <4>3, <2>1, <2>3
      <3> QED
        BY <3>1, <3>2, <1>9
    <2>4. \A c \in Places \ {B, p} :
             \A k \in 1 .. Len(u), m \in 1 .. Len(P[c]) : u[k] # P[c][m]
      BY <2>2, <1>9
    <2> SUFFICES ASSUME NEW a \in Places \ {p}, NEW b \in Places \ {p},
                        NEW i \in 1 .. Len(Q[a]), NEW j \in 1 .. Len(Q[b]),
                        Q[a][i] = Q[b][j]
                 PROVE  a = b /\ i = j
      BY <1>6 DEF Owned
    <2>5. CASE a = B /\ b = B
      BY <2>3, <2>5, <1>4
    <2>6. CASE a = B /\ b # B
      BY <2>4, <2>6, <1>4
    <2>7. CASE a # B /\ b = B
      BY <2>4, <2>7, <1>4
    <2>8. CASE a # B /\ b # B
      BY <2>8, <1>4 DEF Owned
    <2> QED
      BY <2>5, <2>6, <2>7, <2>8
  <1>8. Held(Q) = Held(P)
    <2>1. ASSUME NEW b \in Held(Q) PROVE b \in Held(P)
      <3>1. PICK a \in Places : \E i \in 1 .. Len(Q[a]) : Q[a][i] = b
        BY <2>1 DEF Held
      <3>2. CASE a = B
        <4>0. PICK i \in 1 .. Len(u) : u[i] = b
          BY <3>1, <3>2, <1>4
        <4>1. (\E k \in 1 .. Len(s) : s[k] = b) \/ (\E k \in 1 .. Len(t) : t[k] = b)
          BY <4>0, <1>9
        <4> QED
          BY <4>1, <2>1, <1>1, <1>4 DEF Held
      <3>3. CASE a # B
        BY <3>1, <3>3, <2>1, <1>4, <1>6 DEF Held
      <3> QED
        BY <3>2, <3>3
    <2>2. ASSUME NEW b \in Held(P) PROVE b \in Held(Q)
      <3>1. PICK a \in Places : \E i \in 1 .. Len(P[a]) : P[a][i] = b
        BY <2>2 DEF Held
      <3>2. CASE a \in {B, p}
        <4>1. PICK i \in 1 .. Len(P[a]) : P[a][i] = b
          BY <3>1
        <4>2. CASE a = B
          <5>1. i \in 1 .. Len(s) /\ s[i] = b
            BY <4>1, <4>2, <1>4
          <5>2. i \in 1 .. Len(u) /\ u[i] = b
            BY <5>1, <1>3
          <5>3. i \in 1 .. Len(Q[B]) /\ Q[B][i] = b
            BY <5>2, <1>4
          <5> QED
            BY <5>3, <2>2, <1>1 DEF Held
        <4>3. CASE a = p
          <5>1. i \in 1 .. Len(t) /\ t[i] = b
            BY <4>1, <4>3, <1>4
          <5>2. Len(s) + i \in 1 .. Len(u) /\ u[Len(s) + i] = b
            BY <5>1, <1>3
          <5>3. Len(s) + i \in 1 .. Len(Q[B]) /\ Q[B][Len(s) + i] = b
            BY <5>2, <1>4
          <5> QED
            BY <5>3, <2>2, <1>1 DEF Held
        <4> QED
          BY <3>2, <4>2, <4>3
      <3>3. CASE a \notin {B, p}
        BY <3>1, <3>3, <2>2, <1>4 DEF Held
      <3> QED
        BY <3>2, <3>3
    <2> QED
      BY <2>1, <2>2
  <1> QED
    BY <1>4, <1>5, <1>7, <1>8 DEF Q, B

\* cfg_block_init hands out a block that no list holds any more, whether it
\* was recycled or is new.
LEMMA TakenLemma ==
    ASSUME NEW P \in Pools, Owned(P), NEW p \in Places, p # "blocks",
           allocated = Held(P), NEW b \in Available(P)
    PROVE  /\ b \in Blocks
           /\ Taken(P, p, b) \in Pools
           /\ Owned(Taken(P, p, b))
           /\ Held(Taken(P, p, b)) = Held(P) \cup {b}
           /\ Taken(P, p, b)[p] # <<>>
           /\ \A q \in Places \ {"blocks", p} : Taken(P, p, b)[q] = P[q]
  <1> DEFINE Q == Taken(P, p, b)
             s == P["blocks"]
             t == P[p]
             t2 == Append(t, b)
             s2 == IF s # <<>> THEN Front(s) ELSE s
             B == "blocks"
  <1>1. B \in Places /\ B # p
    BY DEF Places
  <1>2. s \in Seq(Blocks) /\ t \in Seq(Blocks) /\ Len(s) \in Nat /\ Len(t) \in Nat
    BY <1>1, LenProperties DEF Pools
  <1>3. \/ s # <<>> /\ b = Last(s)
        \/ s = <<>> /\ b \in Blocks \ Held(P)
    BY DEF Available
  <1>4. /\ Q[B] = s2 /\ Q[p] = t2 /\ P[B] = s /\ P[p] = t
        /\ \A q \in Places \ {B, p} : Q[q] = P[q]
    BY <1>1 DEF Taken, Pools
  <1>5. /\ b \in Blocks
        /\ s2 \in Seq(Blocks) /\ Len(s2) \in Nat
        /\ \A i \in 1 .. Len(s2) : i \in 1 .. Len(s) /\ s2[i] = s[i] /\ i # Len(s)
        /\ \A i \in 1 .. Len(s) : i \in 1 .. Len(s2) \/ s[i] = b
        /\ s # <<>> => Len(s) \in 1 .. Len(s) /\ s[Len(s)] = b
        /\ s = <<>> => 1 .. Len(s2) = {} /\ b \notin Held(P)
    <2> HIDE DEF s
    <2>1. CASE s = <<>>
      BY <2>1, <1>2, <1>3
    <2>2. CASE s # <<>>
      <3>1. /\ Len(s) > 0 /\ b = s[Len(s)] /\ b \in Blocks
            /\ s2 \in Seq(Blocks) /\ Len(s2) = Len(s) - 1
            /\ \A i \in 1 .. Len(s) - 1 : s2[i] = s[i]
        BY <2>2, <1>2, <1>3, FrontLast
      <3> HIDE DEF s2
      <3> QED
        BY <3>1, <2>2, <1>2
    <2> QED
      BY <2>1, <2>2
  <1>6. /\ t2 \in Seq(Blocks) /\ Len(t2) = Len(t) + 1 /\ t2 # <<>>
        /\ \A i \in 1 .. Len(t) : i \in 1 .. Len(t2) /\ t2[i] = t[i]
        /\ Len(t2) \in 1 .. Len(t2) /\ t2[Len(t2)] = b
        /\ \A i \in 1 .. Len(t2) : i \in 1 .. Len(t) \/ i = Len(t2)
    <2> HIDE DEF t
    <2>1. /\ t2 \in Seq(Blocks) /\ Len(t2) = Len(t) + 1 /\ t2 # <<>>
          /\ \A i \in 1 .. Len(t) : t2[i] = t[i]
          /\ t2[Len(t) + 1] = b
      BY <1>2, <1>5, AppendProperties
    <2> HIDE DEF t2
    <2> QED
      BY <1>2, <2>1
  <1>7. Q \in Pools
    <2>1. Q = [P EXCEPT ![B] = s2, ![p] = t2]
      BY <1>1 DEF Taken, Pools
    <2> HIDE DEF Q, s2, t2, B
    <2> QED
      BY <2>1, <1>1, <1>5, <1>6 DEF Pools
  <1> HIDE DEF Q, s, t, s2, t2, B
  <1>8. Owned(Q)
    <2>1. /\ \A k, m \in 1 .. Len(s) : s[k] = s[m] => k = m
          /\ \A k, m \in 1 .. Len(t) : t[k] = t[m] => k = m
          /\ \A k \in 1 .. Len(s), m \in 1 .. Len(t) : s[k] # t[m]
      BY <1>1, <1>4 DEF Owned
    <2>2. \A c \in Places \ {B, p} : \A m \in 1 .. Len(P[c]) :
             /\ \A k \in 1 .. Len(s) : s[k] # P[c][m]
             /\ \A k \in 1 .. Len(t) : t[k] # P[c][m]
      BY <1>1, <1>4 DEF Owned
    <2>3. b \notin Held(P) => \A c \in Places : \A m \in 1 .. Len(P[c]) : P[c][m] # b
      BY <1>5 DEF Held
    <2>4. \A k, m \in 1 .. Len(s2) : s2[k] = s2[m] => k = m
      BY <2>1, <1>5
    <2>5. \A m \in 1 .. Len(t) : t[m] # b
      BY <2>1, <2>3, <1>4, <1>5
    <2>6. \A k, m \in 1 .. Len(t2) : t2[k] = t2[m] => k = m
      BY <2>1, <2>5, <1>6
    <2>7. \A k \in 1 .. Len(s2) : s2[k] # b
      BY <2>1, <1>5
    <2>8. \A k \in 1 .. Len(s2), m \in 1 .. Len(t2) : s2[k] # t2[m]
      BY <2>1, <2>7, <1>5, <1>6
    <2>9. \A c \in Places \ {B, p} : \A m \in 1 .. Len(P[c]) : P[c][m] # b
      BY <2>2, <2>3, <1>5
    <2>10. \A c \in Places \ {B, p} : \A m \in 1 .. Len(P[c]) :
              /\ \A k \in 1 .. Len(s2) : s2[k] # P[c][m]
              /\ \A k \in 1 .. Len(t2) : t2[k] # P[c][m]
      <3> SUFFICES ASSUME NEW c \in Places \ {B, p}, NEW m \in 1 .. Len(P[c])
                   PROVE  /\ \A k \in 1 .. Len(s2) : s2[k] # P[c][m]
                          /\ \A k \in 1 .. Len(t2) : t2[k] # P[c][m]
        OBVIOUS
      <3>1. /\ \A k \in 1 .. Len(s) : s[k] # P[c][m]
            /\ \A k \in 1 .. Len(t) : t[k] # P[c][m]
            /\ P[c][m] # b
        BY <2>2, <2>9
      <3>2. \A k \in 1 .. Len(s2) : s2[k] # P[c][m]
        BY <3>1, <1>5
      <3>3. \A k \in 1 .. Len(t2) : t2[k] # P[c][m]
        BY <3>1, <1>6
      <3> QED
        BY <3>2, <3>3
    <2> SUFFICES ASSUME NEW a \in Places, NEW c \in Places,
                        NEW i \in 1 .. Len(Q[a]), NEW j \in 1 .. Len(Q[c]),
                        Q[a][i] = Q[c][j]
                 PROVE  a = c /\ i = j
      BY DEF Owned
    <2>11. CASE a = B
      BY <2>4, <2>8, <2>10, <2>11, <1>1, <1>4
    <2>12. CASE a = p
      BY <2>6, <2>8, <2>10, <2>12, <1>1, <1>4
    <2>13. CASE a \notin {B, p} /\ c \in {B, p}
      BY <2>10, <2>13, <1>4
    <2>14. CASE a \notin {B, p} /\ c \notin {B, p}
      BY <2>14, <1>4 DEF Owned
    <2> QED
      BY <2>11, <2>12, <2>13, <2>14
  <1>9. Held(Q) = Held(P) \cup {b}
    <2>1. ASSUME NEW x \in Held(Q), x # b PROVE x \in Held(P)
      <3>1. PICK a \in Places : \E i \in 1 .. Len(Q[a]) : Q[a][i] = x
        BY <2>1 DEF Held
      <3>2. \E i \in 1 .. Len(P[a]) : P[a][i] = x
        <4>1. CASE a = B
          BY <3>1, <4>1, <1>4, <1>5
        <4>2. CASE a = p
          BY <3>1, <4>2, <2>1, <1>4, <1>6
        <4>3. CASE a \notin {B, p}
          BY <3>1, <4>3, <1>4
        <4> QED
          BY <4>1, <4>2, <4>3
      <3> QED
        BY <3>2, <2>1 DEF Held
    <2>2. ASSUME NEW x \in Held(P), x # b PROVE x \in Held(Q)
      <3>1. PICK a \in Places : \E i \in 1 .. Len(P[a]) : P[a][i] = x
        BY <2>2 DEF Held
      <3>2. \E i \in 1 .. Len(Q[a]) : Q[a][i] = x
        <4>1. CASE a = B
          BY <3>1, <4>1, <2>2, <1>4, <1>5
        <4>2. CASE a = p
          BY <3>1, <4>2, <1>4, <1>6
        <4>3. CASE a \notin {B, p}
          BY <3>1, <4>3, <1>4
        <4> QED
          BY <4>1, <4>2, <4>3
      <3> QED
        BY <3>2, <2>2 DEF Held
    <2>3. b \in Held(Q)
      BY <1>4, <1>5, <1>6 DEF Held
    <2> QED
      BY <2>1, <2>2, <2>3
  <1> QED
    BY <1>4, <1>5, <1>6, <1>7, <1>8, <1>9 DEF Q, B

---------------------------------------------------------------------------
(* The ownership of blocks.                                                *)

BlocksInv == TypeOK /\ BlocksOwnedOnce /\ NoBlockLost

\* recycle_block leaves a block with parts of what it had.
LEMMA RecycledType ==
    ASSUME content \in [Blocks -> SUBSET Parts], NEW s
    PROVE  Recycled(s) \in [Blocks -> SUBSET Parts]
  BY DEF Recycled

\* cfg_discard recycles the blocks of a definition: every block stays in
\* exactly one list, and the pools keep their types.
LEMMA DiscardLemma ==
    ASSUME BlocksInv, NEW d \in Defs, Discard(d)
    PROVE  /\ symbol' \in [Defs -> Nat] /\ prototypes' \in Seq(Defs)
           /\ pool' \in Pools /\ content' \in [Blocks -> SUBSET Parts]
           /\ Owned(pool') /\ Held(pool') = Held(pool)
           /\ pool'[d] = <<>> /\ \A q \in Defs \ {d} : pool'[q] = pool[q]
           /\ symbol' = [symbol EXCEPT ![d] = 0]
           /\ prototypes' = Append(prototypes, d)
  <1>1. d \in Places /\ d # "blocks" /\ Defs \ {d} \subseteq Places \ {"blocks", d}
    BY PlaceAssumption DEF Places
  <1>2. pool \in Pools /\ Owned(pool)
    BY DEF BlocksInv, BlocksOwnedOnce, TypeOK, Pools
  <1>3. /\ pool' \in Pools /\ Owned(pool') /\ Held(pool') = Held(pool)
        /\ pool'[d] = <<>>
        /\ \A q \in Places \ {"blocks", d} : pool'[q] = pool[q]
    BY <1>1, <1>2, EmptiedLemma DEF Discard
  <1>4. content' \in [Blocks -> SUBSET Parts]
    BY RecycledType DEF BlocksInv, TypeOK, Discard
  <1>5. symbol' \in [Defs -> Nat] /\ prototypes' \in Seq(Defs)
    BY DEF BlocksInv, TypeOK, Discard
  <1> QED
    BY <1>1, <1>3, <1>4, <1>5 DEF Discard

\* Before the first call of parse() no block exists, so none is lost or owned
\* twice.
THEOREM BlocksInvInit == Init => BlocksInv
  <1> SUFFICES ASSUME Init PROVE BlocksInv
    OBVIOUS
  <1>1. \A p \in Places : pool[p] = <<>> /\ Len(pool[p]) = 0
    BY DEF Init
  <1>2. TypeOK
    BY BoundAssumption DEF Init, TypeOK
  <1>3. BlocksOwnedOnce
    BY <1>1 DEF BlocksOwnedOnce, Owned
  <1>4. NoBlockLost
    BY <1>1 DEF NoBlockLost, Held, Init
  <1> QED
    BY <1>2, <1>3, <1>4 DEF BlocksInv

\* One step of the parser or the driver keeps every block in one list.
THEOREM BlocksInvNext == BlocksInv /\ [Next]_vars => BlocksInv'
  <1> SUFFICES ASSUME BlocksInv, [Next]_vars PROVE BlocksInv'
    OBVIOUS
  <1>t. /\ pool \in Pools /\ Owned(pool) /\ allocated = Held(pool)
        /\ content \in [Blocks -> SUBSET Parts] /\ TypeOK
    BY DEF BlocksInv, TypeOK, BlocksOwnedOnce, NoBlockLost, Pools
  <1>d. "blocks" \in Places /\ "expressions" \in Places /\ "expressions" # "blocks"
          /\ \A d \in Defs : d \in Places /\ d # "blocks" /\ d # "expressions"
    BY PlaceAssumption DEF Places
  <1>1. CASE BeginDefinition
    <2>1. PICK d \in IF prototypes # <<>> THEN {Last(prototypes)} ELSE Defs \ InUse :
             \E b \in Available(Emptied(pool, d)) :
               /\ pool' = Taken(Emptied(pool, d), d, b)
               /\ allocated' = allocated \cup {b}
               /\ content' = [Recycled(pool[d]) EXCEPT ![b] = @ \cup {"ir"}]
               /\ open' = Append(open, d)
      BY <1>1 DEF BeginDefinition
    <2>2. d \in Defs
      BY <2>1, FrontLast, <1>t DEF TypeOK
    <2>3. PICK b \in Available(Emptied(pool, d)) :
               /\ pool' = Taken(Emptied(pool, d), d, b)
               /\ allocated' = allocated \cup {b}
               /\ content' = [Recycled(pool[d]) EXCEPT ![b] = @ \cup {"ir"}]
               /\ open' = Append(open, d)
      BY <2>1
    <2>4. /\ Emptied(pool, d) \in Pools /\ Owned(Emptied(pool, d))
          /\ Held(Emptied(pool, d)) = Held(pool)
      BY <2>2, <1>t, <1>d, EmptiedLemma
    <2>5. /\ b \in Blocks /\ pool' \in Pools /\ Owned(pool')
          /\ Held(pool') = allocated'
      BY <2>2, <2>3, <2>4, <1>t, <1>d, TakenLemma
    <2>6. content' \in [Blocks -> SUBSET Parts]
      BY <2>3, <2>5, <1>t, RecycledType DEF Parts
    <2>7. open' \in Seq(Defs) /\ Len(open') <= MaxDepth
      <3>1. open \in Seq(Defs) /\ Len(open) \in Nat /\ Len(open) < MaxDepth
        BY <1>1, <1>t, LenProperties DEF TypeOK, BeginDefinition
      <3> QED
        BY <3>1, <2>2, <2>3, AppendProperties, BoundAssumption
    <2>8. prototypes' \in Seq(Defs)
      BY <1>1, <1>t, FrontLast DEF TypeOK, BeginDefinition
    <2>9. input' \in 0 .. MaxInput
      BY <1>1, <1>t, BoundAssumption DEF TypeOK, BeginDefinition
    <2>10. TypeOK'
      BY <1>1, <1>t, <2>5, <2>6, <2>7, <2>8, <2>9 DEF TypeOK, BeginDefinition, Pools, Held
    <2> QED
      BY <2>5, <2>10 DEF BlocksInv, BlocksOwnedOnce, NoBlockLost
  <1>2. CASE NewBlock
    <2>1. Last(open) \in Defs
      BY <1>2, <1>t, FrontLast DEF TypeOK, NewBlock
    <2>2. PICK b \in Available(pool), filled \in {{"ir"}, {"ir", "jump_table"}} :
               /\ pool' = Taken(pool, Last(open), b)
               /\ allocated' = allocated \cup {b}
               /\ content' = [content EXCEPT ![b] = @ \cup filled]
      BY <1>2 DEF NewBlock
    <2>3. /\ b \in Blocks /\ pool' \in Pools /\ Owned(pool')
          /\ Held(pool') = allocated'
      BY <2>1, <2>2, <1>t, <1>d, TakenLemma
    <2>4. content' \in [Blocks -> SUBSET Parts]
      BY <2>2, <2>3, <1>t DEF Parts
    <2>5. TypeOK'
      BY <1>2, <1>t, <2>3, <2>4 DEF TypeOK, NewBlock, Pools, Held
    <2> QED
      BY <2>3, <2>5 DEF BlocksInv, BlocksOwnedOnce, NoBlockLost
  <1>3. CASE NewExpressionBlock
    <2>2. PICK b \in Available(pool) :
               /\ pool' = Taken(pool, "expressions", b)
               /\ allocated' = allocated \cup {b}
               /\ content' = [content EXCEPT ![b] = @ \cup {"ir"}]
      BY <1>3 DEF NewExpressionBlock
    <2>3. /\ b \in Blocks /\ pool' \in Pools /\ Owned(pool')
          /\ Held(pool') = allocated'
      BY <2>2, <1>t, <1>d, TakenLemma
    <2>4. content' \in [Blocks -> SUBSET Parts]
      BY <2>2, <2>3, <1>t DEF Parts
    <2>5. TypeOK'
      BY <1>3, <1>t, <2>3, <2>4 DEF TypeOK, NewExpressionBlock, Pools, Held
    <2> QED
      BY <2>3, <2>5 DEF BlocksInv, BlocksOwnedOnce, NoBlockLost
  <1>4. CASE Define
    <2>1. Last(open) \in Defs
      BY <1>4, <1>t, FrontLast DEF TypeOK, Define
    <2>2. TypeOK'
      BY <2>1, <1>4, <1>t DEF TypeOK, Define
    <2> QED
      BY <2>2, <1>4, <1>t DEF BlocksInv, BlocksOwnedOnce, NoBlockLost, Define
  <1>5. CASE EndDefinition
    <2>1. /\ Last(open) \in Defs /\ open' \in Seq(Defs)
          /\ Len(open') <= MaxDepth
      <3>1. /\ Last(open) \in Defs /\ Front(open) \in Seq(Defs)
            /\ Len(Front(open)) = Len(open) - 1 /\ Len(open) \in Nat /\ Len(open) <= MaxDepth
        BY <1>5, <1>t, FrontLast DEF TypeOK, EndDefinition
      <3> QED
        BY <3>1, <1>5, BoundAssumption DEF EndDefinition
    <2>2. CASE symbol[Last(open)] = 0
      <3>1. Discard(Last(open))
        BY <2>2, <1>5 DEF EndDefinition
      <3> QED
        BY <3>1, <2>1, <1>5, <1>t, DiscardLemma
           DEF BlocksInv, BlocksOwnedOnce, NoBlockLost, TypeOK, EndDefinition, Pools
    <2>3. CASE symbol[Last(open)] # 0
      BY <2>3, <2>1, <1>5, <1>t
         DEF BlocksInv, BlocksOwnedOnce, NoBlockLost, TypeOK, EndDefinition, Pools
    <2> QED
      BY <2>2, <2>3
  <1>6. CASE EndDeclaration
    BY <1>6, <1>t DEF BlocksInv, BlocksOwnedOnce, NoBlockLost, TypeOK, EndDeclaration
  <1>7. CASE Parse
    <2>1. CASE def # NULL
      <3>1. def \in Defs /\ Discard(def)
        BY <2>1, <1>7, <1>t DEF TypeOK, Parse
      <3> QED
        BY <3>1, <1>7, <1>t, DiscardLemma
           DEF BlocksInv, BlocksOwnedOnce, NoBlockLost, TypeOK, Parse, Pools
    <2>2. CASE def = NULL
      BY <2>2, <1>7, <1>t DEF BlocksInv, BlocksOwnedOnce, NoBlockLost, TypeOK, Parse
    <2> QED
      BY <2>1, <2>2
  <1>8. CASE BeginDeclaration
    BY <1>8, <1>t DEF BlocksInv, BlocksOwnedOnce, NoBlockLost, TypeOK, BeginDeclaration
  <1>9. CASE ReturnDefinition
    <2>1. def' \in Defs /\ definitions' \in Seq(Defs)
      BY <1>9, <1>t, HeadTailProperties DEF TypeOK, ReturnDefinition
    <2> QED
      BY <2>1, <1>9, <1>t DEF BlocksInv, BlocksOwnedOnce, NoBlockLost, TypeOK, ReturnDefinition
  <1>10. CASE ReturnNull
    <2>1. pool' \in Pools /\ Owned(pool') /\ Held(pool') = Held(pool)
      BY <1>10, <1>t, <1>d, EmptiedLemma DEF ReturnNull
    <2>2. content' \in [Blocks -> SUBSET Parts]
      BY <1>10, <1>t, RecycledType DEF ReturnNull
    <2>3. TypeOK'
      BY <2>1, <2>2, <1>10, <1>t DEF TypeOK, ReturnNull, Pools
    <2> QED
      BY <2>1, <2>3, <1>10, <1>t DEF BlocksInv, BlocksOwnedOnce, NoBlockLost, ReturnNull
  <1>11. CASE Compile
    <2>1. content' \in [Blocks -> SUBSET Parts]
      BY <1>11, <1>t DEF Compile, Parts
    <2> QED
      BY <2>1, <1>11, <1>t DEF BlocksInv, BlocksOwnedOnce, NoBlockLost, TypeOK, Compile
  <1>12. CASE Abort
    BY <1>12, <1>t DEF BlocksInv, BlocksOwnedOnce, NoBlockLost, TypeOK, Abort
  <1>13. CASE NextFile
    BY <1>13, <1>t DEF BlocksInv, BlocksOwnedOnce, NoBlockLost, TypeOK, NextFile
  <1>14. CASE Finalize
    <2> DEFINE B == "blocks"  X == "expressions"
    <2>1. /\ pool' \in Pools /\ pool'[B] = <<>> /\ pool'[X] = <<>>
          /\ \A p \in Places \ {B, X} : pool'[p] = pool[p]
      <3>1. <<>> \in Seq(Blocks)
        OBVIOUS
      <3> QED
        BY <3>1, <1>14, <1>t, <1>d DEF Finalize, Pools
    <2>2. /\ Range(pool[B]) = {pool[B][i] : i \in 1 .. Len(pool[B])}
          /\ Range(pool[X]) = {pool[X][i] : i \in 1 .. Len(pool[X])}
      BY <1>t, <1>d, RangeEquality DEF Pools
    <2>3. 1 .. Len(pool'[B]) = {} /\ 1 .. Len(pool'[X]) = {}
      BY <2>1
    <2>4. allocated' = allocated \ (Range(pool[B]) \cup Range(pool[X]))
      BY <1>14 DEF Finalize
    <2>d. B \in Places /\ X \in Places /\ B # X
      BY <1>d
    <2> HIDE DEF B, X
    <2>5. Owned(pool')
      BY <2>1, <2>3, <1>t DEF Owned
    <2>6. Held(pool') = allocated'
      <3>1. ASSUME NEW b \in Held(pool') PROVE b \in allocated'
        <4>1. PICK p \in Places : \E i \in 1 .. Len(pool'[p]) : pool'[p][i] = b
          BY <3>1 DEF Held
        <4>2. p \notin {B, X} /\ \E i \in 1 .. Len(pool[p]) : pool[p][i] = b
          BY <4>1, <2>1, <2>3
        <4>3. b \notin Range(pool[B]) \cup Range(pool[X])
          BY <4>2, <2>2, <2>d, <1>t DEF Owned
        <4>4. b \in Held(pool)
          BY <4>2, <3>1 DEF Held
        <4> QED
          BY <4>3, <4>4, <2>4, <1>t
      <3>2. ASSUME NEW b \in allocated' PROVE b \in Held(pool')
        <4>1. b \in Blocks /\ b \in Held(pool) /\ b \notin Range(pool[B]) \cup Range(pool[X])
          BY <3>2, <2>4, <1>t DEF Held
        <4>2. PICK p \in Places : \E i \in 1 .. Len(pool[p]) : pool[p][i] = b
          BY <4>1 DEF Held
        <4>3. p \notin {B, X}
          BY <4>1, <4>2, <2>2
        <4> QED
          BY <4>1, <4>2, <4>3, <2>1 DEF Held
      <3> QED
        BY <3>1, <3>2
    <2>7. TypeOK'
      <3>1. prototypes' \in Seq(Defs)
        BY <1>14 DEF Finalize
      <3> QED
        BY <3>1, <2>1, <2>4, <1>14, <1>t DEF TypeOK, Finalize, Pools
    <2> QED
      BY <2>5, <2>6, <2>7 DEF BlocksInv, BlocksOwnedOnce, NoBlockLost
  <1>15. CASE UNCHANGED vars
    BY <1>15, <1>t DEF BlocksInv, BlocksOwnedOnce, NoBlockLost, TypeOK, vars, Held, Owned
  <1> QED
    BY <1>1, <1>2, <1>3, <1>4, <1>5, <1>6, <1>7, <1>8, <1>9, <1>10, <1>11,
       <1>12, <1>13, <1>14, <1>15 DEF Next

\* The state of the pools is always well formed.
THEOREM TypeCorrect == Spec => []TypeOK
  <1>1. BlocksInv => TypeOK
    BY DEF BlocksInv
  <1> QED
    BY <1>1, BlocksInvInit, BlocksInvNext, PTL DEF Spec

\* No block of parse.c is ever in two lists, whatever is parsed, recycled and
\* compiled in whatever order.
THEOREM BlocksOwned == Spec => []BlocksOwnedOnce
  <1>1. BlocksInv => BlocksOwnedOnce
    BY DEF BlocksInv
  <1> QED
    BY <1>1, BlocksInvInit, BlocksInvNext, PTL DEF Spec

\* No block that calloc returned is forgotten before it is freed.
THEOREM BlocksKept == Spec => []NoBlockLost
  <1>1. BlocksInv => NoBlockLost
    BY DEF BlocksInv
  <1> QED
    BY <1>1, BlocksInvInit, BlocksInvNext, PTL DEF Spec

---------------------------------------------------------------------------
(* The queue of definitions.                                               *)

\* Only a running declaration has open definitions, each of them once.
OpenOnce ==
    /\ open # <<>> => phase = "declaration"
    /\ \A i, j \in 1 .. Len(open) : open[i] = open[j] => i = j

\* Definitions that are being parsed or wait in the queue have a body.
HaveBodies ==
    /\ \A i \in 1 .. Len(open) : pool[open[i]] # <<>>
    /\ \A i \in 1 .. Len(definitions) : pool[definitions[i]] # <<>>

\* The definition the driver holds is the one in front of the queue.
HeldByDriver ==
    /\ phase \in {"driver", "compile", "aborted"} /\ def # NULL =>
          /\ symbol[def] = defined - Len(definitions) /\ symbol[def] > 0
          /\ pool[def] # <<>>
    /\ phase = "compile" => def # NULL
    /\ phase = "end" => def = NULL

QueueInv ==
    /\ BlocksInv /\ OpenOnce /\ HaveBodies /\ HeldByDriver
    /\ Len(definitions) <= defined /\ InOrder /\ PooledAreUnused

\* Appending to a list adds its last element and changes no other.
LEMMA AppendElements ==
    ASSUME NEW S, NEW s \in Seq(S), NEW x \in S
    PROVE  /\ Append(s, x) \in Seq(S) /\ Len(s) \in Nat
           /\ Len(Append(s, x)) = Len(s) + 1
           /\ \A i \in 1 .. Len(s) : Append(s, x)[i] = s[i]
           /\ Append(s, x)[Len(s) + 1] = x
           /\ \A i \in 1 .. Len(s) + 1 : i \in 1 .. Len(s) \/ i = Len(s) + 1
  <1>1. Len(s) \in Nat
    BY LenProperties
  <1>2. \A i \in 1 .. Len(s) + 1 : i \in 1 .. Len(s) \/ i = Len(s) + 1
    BY <1>1
  <1> QED
    BY <1>1, <1>2, AppendProperties

\* A definition whose symbol is not set, or that the driver holds, is not in
\* the queue.
LEMMA NotQueued ==
    ASSUME QueueInv, NEW d \in Defs,
           symbol[d] = 0 \/ (phase = "driver" /\ d = def)
    PROVE  \A i \in 1 .. Len(definitions) : definitions[i] # d
  <1>1. Len(definitions) \in Nat /\ defined \in Nat /\ symbol \in [Defs -> Nat]
    BY LenProperties DEF QueueInv, BlocksInv, TypeOK
  <1>2. \A i \in 1 .. Len(definitions) : symbol[definitions[i]] = defined - Len(definitions) + i
    BY DEF QueueInv, InOrder
  <1>3. symbol[d] = 0 \/ symbol[d] = defined - Len(definitions)
    BY NullAssumption DEF QueueInv, HeldByDriver
  <1>4. Len(definitions) <= defined
    BY DEF QueueInv
  <1> QED
    BY <1>1, <1>2, <1>3, <1>4

\* Before the first call of parse() there is no definition at all: the queue
\* and the pool are empty.
THEOREM QueueInvInit == Init => QueueInv
  <1> SUFFICES ASSUME Init PROVE QueueInv
    OBVIOUS
  <1>1. BlocksInv
    BY BlocksInvInit
  <1> QED
    BY <1>1 DEF Init, QueueInv, OpenOnce, HaveBodies, HeldByDriver, InOrder, PooledAreUnused

\* A step that changes neither the lists of definitions nor their symbols,
\* and lets no list of nodes become empty or a pooled one non-empty.
LEMMA QueueKept ==
    ASSUME QueueInv, BlocksInv',
           UNCHANGED <<open, symbol, defined, prototypes, definitions, def>>,
           phase' = phase,
           \A d \in Defs : pool[d] = <<>> <=> pool'[d] = <<>>
    PROVE  QueueInv'
  <1>1. TypeOK
    BY DEF QueueInv, BlocksInv
  <1>2. /\ \A i \in 1 .. Len(open) : open[i] \in Defs
        /\ \A i \in 1 .. Len(definitions) : definitions[i] \in Defs
        /\ \A i \in 1 .. Len(prototypes) : prototypes[i] \in Defs
        /\ def # NULL => def \in Defs
    BY <1>1, ElementOfSeq DEF TypeOK
  <1>3. HaveBodies'
    BY <1>2 DEF QueueInv, HaveBodies
  <1>4. HeldByDriver'
    BY <1>2 DEF QueueInv, HeldByDriver
  <1>5. PooledAreUnused'
    BY <1>2 DEF QueueInv, PooledAreUnused, Unused
  <1> QED
    BY <1>3, <1>4, <1>5 DEF QueueInv, OpenOnce, InOrder

\* Discarding a definition that is not in the queue, not pooled and no longer
\* open keeps the invariant.
LEMMA QueueDiscard ==
    ASSUME QueueInv, BlocksInv', NEW d \in Defs, Discard(d),
           UNCHANGED <<defined, definitions, def>>,
           phase' \in {"declaration", "parse"},
           open' \in Seq(Defs), open' # <<>> => phase' = "declaration",
           \A i, j \in 1 .. Len(open') : open'[i] = open'[j] => i = j,
           \A i \in 1 .. Len(open') : open'[i] # d /\ \E j \in 1 .. Len(open) : open[j] = open'[i],
           \A i \in 1 .. Len(definitions) : definitions[i] # d,
           \A i \in 1 .. Len(prototypes) : prototypes[i] # d
    PROVE  QueueInv'
  <1>1. TypeOK /\ BlocksInv
    BY DEF QueueInv, BlocksInv
  <1>2. /\ pool'[d] = <<>> /\ \A q \in Defs \ {d} : pool'[q] = pool[q]
        /\ symbol' = [symbol EXCEPT ![d] = 0]
        /\ prototypes' = Append(prototypes, d)
    BY <1>1, DiscardLemma
  <1>3. /\ \A i \in 1 .. Len(open') : open'[i] \in Defs \ {d}
        /\ \A i \in 1 .. Len(definitions) : definitions[i] \in Defs \ {d}
        /\ \A i \in 1 .. Len(prototypes) : prototypes[i] \in Defs \ {d}
    BY <1>1, ElementOfSeq DEF TypeOK
  <1>4. symbol'[d] = 0 /\ \A q \in Defs \ {d} : symbol'[q] = symbol[q]
    BY <1>1, <1>2 DEF TypeOK
  <1>5. HaveBodies'
    <2>0. /\ \A j \in 1 .. Len(open) : pool[open[j]] # <<>>
          /\ \A j \in 1 .. Len(definitions) : pool[definitions[j]] # <<>>
      BY DEF QueueInv, HaveBodies
    <2>1. ASSUME NEW i \in 1 .. Len(open') PROVE pool'[open'[i]] # <<>>
      <3>1. PICK j \in 1 .. Len(open) : open[j] = open'[i]
        OBVIOUS
      <3>2. pool'[open'[i]] = pool[open'[i]]
        BY <1>2, <1>3
      <3> QED
        BY <3>1, <3>2, <2>0
    <2>2. ASSUME NEW i \in 1 .. Len(definitions) PROVE pool'[definitions[i]] # <<>>
      BY <1>2, <1>3, <2>0
    <2> QED
      BY <2>1, <2>2 DEF HaveBodies
  <1>6. InOrder'
    BY <1>3, <1>4 DEF QueueInv, InOrder
  <1>7. PooledAreUnused'
    <2>1. /\ Len(prototypes') = Len(prototypes) + 1
          /\ \A i \in 1 .. Len(prototypes) : prototypes'[i] = prototypes[i]
          /\ prototypes'[Len(prototypes) + 1] = d
          /\ \A i \in 1 .. Len(prototypes) + 1 : i \in 1 .. Len(prototypes) \/ i = Len(prototypes) + 1
      BY <1>1, <1>2, AppendElements DEF TypeOK
    <2>2. Unused(d)'
      BY <1>2, <1>3, <1>4 DEF Unused
    <2>3. ASSUME NEW i \in 1 .. Len(prototypes) PROVE Unused(prototypes[i])'
      <3>1. Unused(prototypes[i]) /\ prototypes[i] \in Defs \ {d}
        BY <1>3 DEF QueueInv, PooledAreUnused
      <3>2. \A j \in 1 .. Len(open') : open'[j] # prototypes[i]
        BY <3>1 DEF Unused
      <3> QED
        BY <3>1, <3>2, <1>2, <1>4, <2>1 DEF Unused
    <2>4. \A i \in 1 .. Len(prototypes') : Unused(prototypes[i])' 
      BY <2>1, <2>2, <2>3
    <2>5. \A i, j \in 1 .. Len(prototypes') : prototypes'[i] = prototypes'[j] => i = j
      BY <2>1, <1>3 DEF QueueInv, PooledAreUnused
    <2> QED
      BY <2>4, <2>5 DEF PooledAreUnused
  <1> QED
    BY <1>5, <1>6, <1>7 DEF QueueInv, OpenOnce, HeldByDriver

\* One step of the parser or the driver keeps the queue in the order of
\* cfg_define and the pool free of definitions in use.
THEOREM QueueInvNext == QueueInv /\ [Next]_vars => QueueInv'
  <1> SUFFICES ASSUME QueueInv, [Next]_vars PROVE QueueInv'
    OBVIOUS
  <1>t. TypeOK /\ BlocksInv /\ BlocksInv'
    BY BlocksInvNext DEF QueueInv, BlocksInv
  <1>p. pool \in Pools /\ Owned(pool) /\ allocated = Held(pool)
    BY <1>t DEF BlocksInv, TypeOK, BlocksOwnedOnce, NoBlockLost, Pools
  <1>d. \A d \in Defs : d \in Places /\ d # "blocks" /\ d # "expressions"
    BY PlaceAssumption DEF Places
  <1>x. "expressions" \in Places /\ "expressions" # "blocks"
    BY DEF Places
  <1>e. /\ \A i \in 1 .. Len(open) : open[i] \in Defs
        /\ \A i \in 1 .. Len(definitions) : definitions[i] \in Defs
        /\ \A i \in 1 .. Len(prototypes) : prototypes[i] \in Defs
        /\ def # NULL => def \in Defs
    BY <1>t, ElementOfSeq DEF TypeOK
  <1>1. CASE BeginDefinition
    <2>1. PICK d \in IF prototypes # <<>> THEN {Last(prototypes)} ELSE Defs \ InUse :
             \E b \in Available(Emptied(pool, d)) :
               /\ pool' = Taken(Emptied(pool, d), d, b)
               /\ open' = Append(open, d)
      BY <1>1 DEF BeginDefinition
    <2>2. /\ d \in Defs
          /\ \A i \in 1 .. Len(open) : open[i] # d
          /\ \A i \in 1 .. Len(definitions) : definitions[i] # d
      <3>1. CASE prototypes # <<>>
        <4>1. d = prototypes[Len(prototypes)] /\ d \in Defs /\ Len(prototypes) \in 1 .. Len(prototypes)
          BY <2>1, <3>1, <1>t, FrontLast DEF TypeOK
        <4> QED
          BY <4>1 DEF QueueInv, PooledAreUnused, Unused
      <3>2. CASE prototypes = <<>>
        <4>1. d \in Defs /\ d \notin Range(open) /\ d \notin Range(definitions)
          BY <2>1, <3>2 DEF InUse
        <4>2. /\ Range(open) = {open[i] : i \in 1 .. Len(open)}
              /\ Range(definitions) = {definitions[i] : i \in 1 .. Len(definitions)}
          BY <1>t, RangeEquality DEF TypeOK
        <4> QED
          BY <4>1, <4>2
      <3> QED
        BY <3>1, <3>2
    <2>3. PICK b \in Available(Emptied(pool, d)) : pool' = Taken(Emptied(pool, d), d, b)
      BY <2>1
    <2>4. /\ Emptied(pool, d) \in Pools /\ Owned(Emptied(pool, d))
          /\ Held(Emptied(pool, d)) = Held(pool)
          /\ \A q \in Places \ {"blocks", d} : Emptied(pool, d)[q] = pool[q]
      BY <2>2, <1>p, <1>d, EmptiedLemma
    <2>5. pool'[d] # <<>> /\ \A q \in Defs \ {d} : pool'[q] = pool[q]
      BY <2>2, <2>3, <2>4, <1>p, <1>d, TakenLemma
    <2>6. /\ open' = Append(open, d) /\ Len(open) \in Nat /\ Len(open') = Len(open) + 1
          /\ \A i \in 1 .. Len(open) : open'[i] = open[i]
          /\ open'[Len(open) + 1] = d
          /\ \A i \in 1 .. Len(open) + 1 : i \in 1 .. Len(open) \/ i = Len(open) + 1
      BY <2>1, <2>2, <1>t, AppendElements DEF TypeOK
    <2>7. /\ phase = "declaration" /\ phase' = "declaration"
          /\ UNCHANGED <<symbol, defined, definitions, def>>
          /\ prototypes' = IF prototypes # <<>> THEN Front(prototypes) ELSE prototypes
      BY <1>1 DEF BeginDefinition
    <2>8. OpenOnce'
      BY <2>2, <2>6, <2>7 DEF OpenOnce, QueueInv
    <2>9. HaveBodies'
      BY <2>2, <2>5, <2>6, <2>7, <1>e DEF HaveBodies, QueueInv
    <2>10. /\ \A i \in 1 .. Len(prototypes') :
                 /\ i \in 1 .. Len(prototypes) /\ prototypes'[i] = prototypes[i]
                 /\ prototypes[i] # d
      <3>1. CASE prototypes # <<>>
        <4>1. /\ Len(prototypes) \in Nat /\ Len(prototypes) > 0
              /\ d = prototypes[Len(prototypes)]
              /\ Len(prototypes') = Len(prototypes) - 1
              /\ \A i \in 1 .. Len(prototypes) - 1 : prototypes'[i] = prototypes[i]
          BY <2>1, <2>7, <3>1, <1>t, FrontLast DEF TypeOK
        <4>2. \A i \in 1 .. Len(prototypes) - 1 :
                 i \in 1 .. Len(prototypes) /\ Len(prototypes) \in 1 .. Len(prototypes) /\ i # Len(prototypes)
          BY <4>1
        <4>3. \A i, j \in 1 .. Len(prototypes) : prototypes[i] = prototypes[j] => i = j
          BY DEF QueueInv, PooledAreUnused
        <4> QED
          BY <4>1, <4>2, <4>3
      <3>2. CASE prototypes = <<>>
        BY <2>7, <3>2
      <3> QED
        BY <3>1, <3>2
    <2>11. PooledAreUnused'
      <3>1. ASSUME NEW i \in 1 .. Len(prototypes') PROVE Unused(prototypes[i])'
        <4>1. /\ Unused(prototypes[i]) /\ prototypes[i] # d /\ prototypes'[i] = prototypes[i]
              /\ prototypes[i] \in Defs
          BY <2>10, <1>e DEF QueueInv, PooledAreUnused
        <4>2. \A j \in 1 .. Len(open') : open'[j] # prototypes[i]
          BY <4>1, <2>6 DEF Unused
        <4> QED
          BY <4>1, <4>2, <2>5, <2>7 DEF Unused
      <3>2. \A i, j \in 1 .. Len(prototypes') : prototypes'[i] = prototypes'[j] => i = j
        BY <2>10 DEF QueueInv, PooledAreUnused
      <3> QED
        BY <3>1, <3>2 DEF PooledAreUnused
    <2> QED
      BY <2>7, <2>8, <2>9, <2>11, <1>t DEF QueueInv, HeldByDriver, InOrder
  <1>2. CASE NewBlock
    <2>1. /\ open # <<>> /\ Last(open) \in Defs /\ pool[Last(open)] # <<>>
      <3>1. open # <<>> /\ open \in Seq(Defs)
        BY <1>2, <1>t DEF TypeOK, NewBlock
      <3>2. Last(open) = open[Len(open)] /\ Len(open) \in 1 .. Len(open) /\ Last(open) \in Defs
        BY <3>1, FrontLast
      <3> QED
        BY <3>1, <3>2 DEF QueueInv, HaveBodies
    <2>2. PICK b \in Available(pool) : pool' = Taken(pool, Last(open), b)
      BY <1>2 DEF NewBlock
    <2>3. /\ pool'[Last(open)] # <<>>
          /\ \A q \in Defs \ {Last(open)} : pool'[q] = pool[q]
      BY <2>1, <2>2, <1>p, <1>d, TakenLemma
    <2> QED
      BY <2>1, <2>3, <1>2, <1>t, QueueKept DEF NewBlock
  <1>3. CASE NewExpressionBlock
    <2>2. PICK b \in Available(pool) : pool' = Taken(pool, "expressions", b)
      BY <1>3 DEF NewExpressionBlock
    <2>3. \A q \in Defs : pool'[q] = pool[q]
      BY <2>2, <1>p, <1>d, <1>x, TakenLemma
    <2> QED
      BY <2>3, <1>3, <1>t, QueueKept DEF NewExpressionBlock
  <1>4. CASE Define
    <2> DEFINE d == Last(open)
    <2>1. d \in Defs /\ symbol[d] = 0 /\ d = open[Len(open)] /\ Len(open) \in 1 .. Len(open)
      BY <1>4, <1>t, FrontLast DEF TypeOK, Define
    <2>2. /\ phase' = "declaration" /\ phase = "declaration" /\ UNCHANGED <<pool, open, prototypes, def>>
          /\ defined' = defined + 1 /\ symbol' = [symbol EXCEPT ![d] = defined + 1]
          /\ definitions' = Append(definitions, d)
      BY <1>4 DEF Define
    <2>3. \A i \in 1 .. Len(definitions) : definitions[i] # d
      BY <2>1, NotQueued
    <2>4. pool[d] # <<>>
      BY <2>1 DEF QueueInv, HaveBodies
    <2>5. \A i \in 1 .. Len(prototypes) : prototypes[i] # d
      BY <2>1 DEF QueueInv, PooledAreUnused, Unused
    <2> HIDE DEF d
    <2>6. /\ Len(definitions) \in Nat /\ Len(definitions') = Len(definitions) + 1
          /\ \A i \in 1 .. Len(definitions) : definitions'[i] = definitions[i]
          /\ definitions'[Len(definitions) + 1] = d
          /\ \A i \in 1 .. Len(definitions) + 1 :
                i \in 1 .. Len(definitions) \/ i = Len(definitions) + 1
      BY <2>1, <2>2, <1>t, AppendElements DEF TypeOK
    <2>7. symbol'[d] = defined + 1 /\ \A q \in Defs \ {d} : symbol'[q] = symbol[q]
      BY <2>1, <2>2, <1>t DEF TypeOK
    <2>8. InOrder'
      <3>1. ASSUME NEW i \in 1 .. Len(definitions')
            PROVE  symbol'[definitions'[i]] = defined' - Len(definitions') + i
        <4>1. defined \in Nat /\ defined' - Len(definitions') = defined - Len(definitions)
          BY <2>2, <2>6, <1>t DEF TypeOK
        <4>2. CASE i \in 1 .. Len(definitions)
          BY <4>1, <4>2, <2>3, <2>6, <2>7, <1>e DEF QueueInv, InOrder
        <4>3. CASE i = Len(definitions) + 1
          BY <4>1, <4>3, <2>6, <2>7
        <4> QED
          BY <4>2, <4>3, <2>6
      <3> QED
        BY <3>1 DEF InOrder
    <2>9. Len(definitions') <= defined'
      BY <2>2, <2>6, <1>t DEF TypeOK, QueueInv
    <2>10. HaveBodies'
      BY <2>2, <2>4, <2>6 DEF QueueInv, HaveBodies
    <2>11. PooledAreUnused'
      <3>1. ASSUME NEW i \in 1 .. Len(prototypes) PROVE Unused(prototypes[i])'
        <4>1. Unused(prototypes[i]) /\ prototypes[i] \in Defs \ {d}
          BY <2>5, <1>e DEF QueueInv, PooledAreUnused
        <4> QED
          BY <4>1, <2>2, <2>6, <2>7 DEF Unused
      <3> QED
        BY <3>1, <2>2 DEF QueueInv, PooledAreUnused
    <2> QED
      BY <2>2, <2>8, <2>9, <2>10, <2>11, <1>t DEF QueueInv, OpenOnce, HeldByDriver
  <1>5. CASE EndDefinition
    <2> DEFINE d == Last(open)
    <2>1. /\ d \in Defs /\ d = open[Len(open)] /\ Len(open) \in 1 .. Len(open)
          /\ open' \in Seq(Defs)
          /\ \A i \in 1 .. Len(open') : i \in 1 .. Len(open) /\ i # Len(open) /\ open'[i] = open[i]
      <3>1. /\ d \in Defs /\ d = open[Len(open)] /\ Len(open) \in Nat /\ Len(open) > 0
            /\ open' \in Seq(Defs) /\ Len(open') = Len(open) - 1
            /\ \A i \in 1 .. Len(open) - 1 : open'[i] = open[i]
        BY <1>5, <1>t, FrontLast DEF TypeOK, EndDefinition
      <3> QED
        BY <3>1
    <2>2. /\ phase' = "declaration" /\ phase = "declaration" /\ UNCHANGED <<defined, definitions, def>>
      BY <1>5 DEF EndDefinition
    <2>3. CASE symbol[d] = 0
      <3>1. Discard(d)
        BY <2>3, <1>5 DEF EndDefinition
      <3>2. \A i \in 1 .. Len(definitions) : definitions[i] # d
        BY <2>1, <2>3, NotQueued
      <3>3. \A i \in 1 .. Len(prototypes) : prototypes[i] # d
        BY <2>1 DEF QueueInv, PooledAreUnused, Unused
      <3>4. /\ \A i, j \in 1 .. Len(open') : open'[i] = open'[j] => i = j
            /\ \A i \in 1 .. Len(open') : open'[i] # d /\ \E j \in 1 .. Len(open) : open[j] = open'[i]
        BY <2>1 DEF QueueInv, OpenOnce
      <3> HIDE DEF d
      <3> QED
        BY <3>1, <3>2, <3>3, <3>4, <2>1, <2>2, <1>t, QueueDiscard
    <2>4. CASE symbol[d] # 0
      <3>1. UNCHANGED <<symbol, pool, content, prototypes>>
        BY <2>4, <1>5 DEF EndDefinition
      <3>2. OpenOnce'
        BY <2>1, <2>2 DEF QueueInv, OpenOnce
      <3>3. HaveBodies'
        BY <2>1, <2>2, <3>1 DEF QueueInv, HaveBodies
      <3>4. PooledAreUnused'
        BY <2>1, <2>2, <3>1 DEF QueueInv, PooledAreUnused, Unused
      <3> QED
        BY <3>1, <3>2, <3>3, <3>4, <2>2, <1>t DEF QueueInv, InOrder, HeldByDriver
    <2> QED
      BY <2>3, <2>4
  <1>6. CASE EndDeclaration
    BY <1>6, <1>t DEF EndDeclaration, QueueInv, OpenOnce, HaveBodies, HeldByDriver,
                      InOrder, PooledAreUnused, Unused
  <1>7. CASE Parse
    <2>1. phase = "driver" /\ phase' = "parse" /\ UNCHANGED <<open, defined, definitions, def>>
      BY <1>7 DEF Parse
    <2>2. open = <<>>
      BY <2>1 DEF QueueInv, OpenOnce
    <2>3. CASE def # NULL
      <3>1. def \in Defs /\ Discard(def)
        BY <2>3, <1>7, <1>e DEF Parse
      <3>2. \A i \in 1 .. Len(definitions) : definitions[i] # def
        BY <2>1, <3>1, NotQueued
      <3>3. \A i \in 1 .. Len(prototypes) : prototypes[i] # def
        BY <2>1 DEF QueueInv, PooledAreUnused, Unused
      <3>4. open' \in Seq(Defs) /\ open' = <<>> /\ Len(open') = 0
        BY <2>1, <2>2
      <3> QED
        BY <3>1, <3>2, <3>3, <3>4, <2>1, <1>t, QueueDiscard
    <2>4. CASE def = NULL
      BY <2>4, <1>7, <1>t DEF Parse, QueueInv, OpenOnce, HaveBodies, HeldByDriver,
                      InOrder, PooledAreUnused, Unused
    <2> QED
      BY <2>3, <2>4
  <1>8. CASE BeginDeclaration
    BY <1>8, <1>t DEF BeginDeclaration, QueueInv, OpenOnce, HaveBodies, HeldByDriver,
                      InOrder, PooledAreUnused, Unused
  <1>9. CASE ReturnDefinition
    <2>1. /\ Len(definitions) \in Nat /\ Len(definitions) > 0
          /\ def' = definitions[1] /\ Len(definitions') = Len(definitions) - 1
          /\ \A i \in 1 .. Len(definitions) - 1 : definitions'[i] = definitions[i + 1]
      <3>1. definitions \in Seq(Defs) /\ definitions # <<>>
        BY <1>9, <1>t DEF ReturnDefinition, TypeOK
      <3> QED
        BY <3>1, <1>9, HeadTailProperties, EmptySeq DEF ReturnDefinition
    <2>2. /\ phase = "parse" /\ phase' = "compile"
          /\ UNCHANGED <<pool, open, symbol, defined, prototypes>>
      BY <1>9 DEF ReturnDefinition
    <2>3. /\ 1 \in 1 .. Len(definitions) /\ def' \in Defs
          /\ \A i \in 1 .. Len(definitions') :
                i + 1 \in 1 .. Len(definitions) /\ definitions'[i] = definitions[i + 1]
      BY <2>1, <1>e
    <2>4. defined \in Nat /\ Len(definitions) <= defined
      BY <1>t DEF TypeOK, QueueInv
    <2>5. InOrder' /\ Len(definitions') <= defined'
      <3>1. ASSUME NEW i \in 1 .. Len(definitions')
            PROVE  symbol'[definitions'[i]] = defined' - Len(definitions') + i
        <4>1. symbol[definitions[i + 1]] = defined - Len(definitions) + (i + 1)
          BY <2>3 DEF QueueInv, InOrder
        <4>2. symbol'[definitions'[i]] = symbol[definitions[i + 1]] /\ defined' = defined
          BY <2>2, <2>3
        <4> QED
          BY <4>1, <4>2, <2>1, <2>4
      <3>2. Len(definitions') <= defined'
        BY <2>1, <2>2, <2>4
      <3> QED
        BY <3>1, <3>2 DEF InOrder
    <2>6. HeldByDriver'
      <3>1. symbol[def'] = defined - Len(definitions) + 1 /\ pool[def'] # <<>>
        BY <2>1, <2>3 DEF QueueInv, InOrder, HaveBodies
      <3>2. def' # NULL
        BY <2>3, NullAssumption
      <3> QED
        BY <3>1, <3>2, <2>1, <2>2, <2>4 DEF HeldByDriver
    <2>7. HaveBodies'
      BY <2>2, <2>3 DEF QueueInv, HaveBodies
    <2>8. PooledAreUnused'
      <3>1. ASSUME NEW i \in 1 .. Len(prototypes) PROVE Unused(prototypes[i])'
        <4>1. Unused(prototypes[i])
          BY DEF QueueInv, PooledAreUnused
        <4> QED
          BY <4>1, <2>1, <2>2, <2>3 DEF Unused
      <3> QED
        BY <3>1, <2>2 DEF QueueInv, PooledAreUnused
    <2>9. OpenOnce'
      BY <2>2 DEF QueueInv, OpenOnce
    <2> QED
      BY <2>5, <2>6, <2>7, <2>8, <2>9, <1>t DEF QueueInv
  <1>10. CASE ReturnNull
    <2>1. \A q \in Defs : pool'[q] = pool[q]
      BY <1>10, <1>p, <1>d, <1>x, EmptiedLemma DEF ReturnNull
    <2>2. /\ phase = "parse" /\ phase' = "end" /\ def' = NULL
          /\ UNCHANGED <<open, symbol, defined, prototypes, definitions>>
      BY <1>10 DEF ReturnNull
    <2>3. HaveBodies' /\ PooledAreUnused'
      BY <2>1, <2>2, <1>e DEF QueueInv, HaveBodies, PooledAreUnused, Unused
    <2> QED
      BY <2>2, <2>3, <1>t DEF QueueInv, OpenOnce, HeldByDriver, InOrder
  <1>11. CASE Compile
    BY <1>11, <1>t DEF Compile, QueueInv, OpenOnce, HaveBodies, HeldByDriver,
                      InOrder, PooledAreUnused, Unused
  <1>12. CASE Abort
    BY <1>12, <1>t DEF Abort, QueueInv, OpenOnce, HaveBodies, HeldByDriver,
                      InOrder, PooledAreUnused, Unused
  <1>13. CASE NextFile
    BY <1>13, <1>t, <1>e, NullAssumption DEF NextFile, QueueInv, OpenOnce, HaveBodies, HeldByDriver,
                      InOrder, PooledAreUnused, Unused
  <1>14. CASE Finalize
    <2>1. \A q \in Defs : pool'[q] = pool[q]
      BY <1>14, <1>p, <1>d DEF Finalize, Pools
    <2>2. /\ phase \in {"end", "aborted"} /\ phase' = "final" /\ prototypes' = <<>>
          /\ UNCHANGED <<open, symbol, defined, definitions, def>>
      BY <1>14 DEF Finalize
    <2>3. HaveBodies' /\ PooledAreUnused'
      BY <2>1, <2>2, <1>e DEF QueueInv, HaveBodies, PooledAreUnused
    <2> QED
      BY <2>2, <2>3, <1>t DEF QueueInv, OpenOnce, HeldByDriver, InOrder
  <1>15. CASE UNCHANGED vars
    BY <1>15, <1>t DEF vars, QueueInv, OpenOnce, HaveBodies, HeldByDriver,
                      InOrder, PooledAreUnused, Unused
  <1> QED
    BY <1>1, <1>2, <1>3, <1>4, <1>5, <1>6, <1>7, <1>8, <1>9, <1>10, <1>11,
       <1>12, <1>13, <1>14, <1>15 DEF Next

\* The queue of parse.c holds the definitions in the order of cfg_define.
THEOREM DefinitionsInOrder == Spec => []InOrder
  <1>1. QueueInv => InOrder
    BY DEF QueueInv
  <1> QED
    BY <1>1, QueueInvInit, QueueInvNext, PTL DEF Spec

\* cfg_init never takes a definition that is still in use, and its assertion
\* that the symbol is not set holds.
THEOREM PooledUnused == Spec => []PooledAreUnused
  <1>1. QueueInv => PooledAreUnused
    BY DEF QueueInv
  <1> QED
    BY <1>1, QueueInvInit, QueueInvNext, PTL DEF Spec

\* The definition parse() returns is complete when the back end gets it.
THEOREM HandedOutComplete == Spec => []HandedOutIsComplete
  <1>1. QueueInv => HandedOutIsComplete
    <2> SUFFICES ASSUME QueueInv, phase = "compile" PROVE HandedOutIsComplete
      BY DEF HandedOutIsComplete
    <2>1. /\ def # NULL /\ open = <<>> /\ symbol[def] > 0 /\ pool[def] # <<>>
          /\ symbol[def] = defined - Len(definitions)
      BY DEF QueueInv, HeldByDriver, OpenOnce
    <2>2. \A i \in 1 .. Len(definitions) : symbol[definitions[i]] = defined - Len(definitions) + i
      BY DEF QueueInv, InOrder
    <2>3. defined \in Nat /\ Len(definitions) \in Nat
      BY LenProperties DEF QueueInv, BlocksInv, TypeOK
    <2>4. \A i \in 1 .. Len(definitions) : definitions[i] # def
      BY <2>1, <2>2, <2>3
    <2> QED
      BY <2>1, <2>4 DEF HandedOutIsComplete
  <1> QED
    BY <1>1, QueueInvInit, QueueInvNext, PTL DEF Spec

\* parse() returns one definition after the other, in the order in which
\* cfg_define got their symbols.
THEOREM EmittedOrder == Spec => EmittedInOrder
  <1> DEFINE A == phase = "parse" /\ phase' = "compile" =>
                     symbol[def'] = defined - Len(definitions) + 1
  <1>1. QueueInv /\ [Next]_vars => [A]_vars
    <2> SUFFICES ASSUME QueueInv, Next, phase = "parse", phase' = "compile"
                 PROVE  symbol[def'] = defined - Len(definitions) + 1
      OBVIOUS
    <2>1. ReturnDefinition
      BY DEF Next, BeginDefinition, NewBlock, NewExpressionBlock, Define, EndDefinition,
             EndDeclaration, Parse, BeginDeclaration, ReturnNull, Compile, Abort,
             NextFile, Finalize
    <2>2. definitions \in Seq(Defs) /\ definitions # <<>> /\ def' = Head(definitions)
      BY <2>1 DEF ReturnDefinition, QueueInv, BlocksInv, TypeOK
    <2>3. def' = definitions[1] /\ 1 \in 1 .. Len(definitions)
      BY <2>2, EmptySeq
    <2> QED
      BY <2>3 DEF QueueInv, InOrder
  <1> QED
    BY <1>1, QueueInvInit, QueueInvNext, PTL DEF Spec, EmittedInOrder

---------------------------------------------------------------------------
(* Blocks that are free to use.                                            *)

\* The blocks of the list s have the contents C, without what recycle_block
\* resets.
Reset(s, C) == \A i \in 1 .. Len(s) : C[s[i]] \subseteq {"jump_table"}

\* recycle_block on every block of s resets the blocks of s and keeps those
\* that are reset already.
LEMMA RecycledReset ==
    ASSUME content \in [Blocks -> SUBSET Parts], NEW P \in Pools, NEW p \in Places, p # "blocks",
           Reset(P["blocks"], content)
    PROVE  Reset(Emptied(P, p)["blocks"], Recycled(P[p]))
  <1> DEFINE s == P["blocks"]
             t == P[p]
             u == Emptied(P, p)["blocks"]
             C == Recycled(t)
  <1>1. s \in Seq(Blocks) /\ t \in Seq(Blocks) /\ u = s \o t
    BY DEF Pools, Places, Emptied
  <1>2. Range(t) = {t[i] : i \in 1 .. Len(t)}
    BY <1>1, RangeEquality
  <1>3. \A b \in Blocks : C[b] = IF b \in Range(t) THEN content[b] \ {"ir", "color"} ELSE content[b]
    BY DEF Recycled
  <1>4. Reset(s, content)
    OBVIOUS
  <1> HIDE DEF s, t, u, C
  <1>5. \A b \in Blocks : content[b] \in SUBSET {"ir", "jump_table", "color"}
    BY DEF Parts
  <1>6. \A k \in 1 .. Len(u) : \/ k \in 1 .. Len(s) /\ u[k] = s[k]
                             \/ \E i \in 1 .. Len(t) : k = Len(s) + i /\ u[k] = t[i]
    BY <1>1, ConcatElements
  <1> SUFFICES ASSUME NEW k \in 1 .. Len(u) PROVE C[u[k]] \subseteq {"jump_table"}
    BY DEF Reset, u, C, t
  <1>7. CASE k \in 1 .. Len(s) /\ u[k] = s[k]
    <2>1. s[k] \in Blocks /\ content[s[k]] \subseteq {"jump_table"}
      BY <1>1, <1>4, <1>7, ElementOfSeq DEF Reset
    <2>2. C[s[k]] \subseteq content[s[k]]
      <3>1. C[s[k]] = content[s[k]] \/ C[s[k]] = content[s[k]] \ {"ir", "color"}
        BY <1>3, <2>1
      <3> QED BY <3>1
    <2> QED BY <1>7, <2>1, <2>2
  <1>8. CASE \E i \in 1 .. Len(t) : k = Len(s) + i /\ u[k] = t[i]
    <2>1. u[k] \in Blocks /\ u[k] \in Range(t)
      BY <1>1, <1>2, <1>8, ElementOfSeq
    <2>2. C[u[k]] = content[u[k]] \ {"ir", "color"}
      BY <1>3, <2>1
    <2> QED BY <1>5, <2>1, <2>2
  <1> QED BY <1>6, <1>7, <1>8

\* cfg_block_init takes the block off the list, so filling it in leaves the
\* other free blocks alone.
LEMMA TakenReset ==
    ASSUME NEW P \in Pools, Owned(P), NEW p \in Places, p # "blocks",
           NEW b \in Available(P), b \in Blocks, NEW C \in [Blocks -> SUBSET Parts],
           Reset(P["blocks"], C), NEW X
    PROVE  Reset(Taken(P, p, b)["blocks"], [C EXCEPT ![b] = X])
  <1> DEFINE s == P["blocks"]
             u == Taken(P, p, b)["blocks"]
             D == [C EXCEPT ![b] = X]
  <1>1. s \in Seq(Blocks) /\ "blocks" \in Places
    BY DEF Pools, Places
  <1>2. Reset(s, C)
    OBVIOUS
  <1>3. \A c \in Blocks : c # b => D[c] = C[c]
    OBVIOUS
  <1>4. CASE s # <<>>
    <2>1. u = Front(s) /\ b = Last(s)
      BY <1>1, <1>4 DEF Taken, Available, Pools
    <2>2. /\ Len(s) \in Nat /\ Len(s) > 0 /\ b = s[Len(s)] /\ Len(u) = Len(s) - 1
          /\ \A i \in 1 .. Len(s) - 1 : u[i] = s[i]
      <3> HIDE DEF s, u
      <3> QED BY <1>1, <1>4, <2>1, FrontLast
    <2>3. \A i, j \in 1 .. Len(s) : s[i] = s[j] => i = j
      BY <1>1 DEF Owned
    <2> HIDE DEF s, u, D
    <2> SUFFICES ASSUME NEW i \in 1 .. Len(u) PROVE D[u[i]] \subseteq {"jump_table"}
      BY DEF Reset, u, D
    <2>4. i \in 1 .. Len(s) /\ i # Len(s) /\ Len(s) \in 1 .. Len(s) /\ u[i] = s[i]
      BY <2>2
    <2>5. s[i] \in Blocks /\ s[i] # b
      BY <1>1, <2>2, <2>3, <2>4, ElementOfSeq
    <2> QED BY <1>2, <1>3, <2>4, <2>5 DEF Reset
  <1>5. CASE s = <<>>
    <2>1. u = <<>>
      BY <1>1, <1>5 DEF Taken, Pools
    <2> QED BY <2>1 DEF Reset
  <1> QED BY <1>4, <1>5

\* One step keeps the free blocks reset: a recycled block has been reset, and
\* the parser and the back end only fill in and color blocks that are in use.
LEMMA ResetNext == QueueInv /\ FreeBlocksReset /\ [Next]_vars => FreeBlocksReset'
  <1> SUFFICES ASSUME QueueInv, FreeBlocksReset, [Next]_vars PROVE FreeBlocksReset'
    OBVIOUS
  <1>1. /\ pool \in Pools /\ Owned(pool) /\ allocated = Held(pool)
        /\ content \in [Blocks -> SUBSET Parts] /\ TypeOK
    BY DEF QueueInv, BlocksInv, TypeOK, BlocksOwnedOnce, NoBlockLost, Pools
  <1>2. "blocks" \in Places /\ "expressions" \in Places /\ "expressions" # "blocks"
          /\ \A d \in Defs : d \in Places /\ d # "blocks" /\ d # "expressions"
    BY PlaceAssumption DEF Places
  <1>3. Reset(pool["blocks"], content)
    BY DEF FreeBlocksReset, Reset
  <1>4. ASSUME Reset(pool'["blocks"], content') PROVE FreeBlocksReset'
    BY <1>4 DEF FreeBlocksReset, Reset
  <1>5. ASSUME NEW d \in Defs, Discard(d) PROVE FreeBlocksReset'
    BY <1>1, <1>2, <1>3, <1>4, <1>5, RecycledReset DEF Discard
  <1>6. CASE BeginDefinition
    <2>1. PICK d \in IF prototypes # <<>> THEN {Last(prototypes)} ELSE Defs \ InUse :
             \E b \in Available(Emptied(pool, d)) :
               /\ pool' = Taken(Emptied(pool, d), d, b)
               /\ content' = [Recycled(pool[d]) EXCEPT ![b] = @ \cup {"ir"}]
      BY <1>6 DEF BeginDefinition
    <2>2. d \in Defs
      BY <2>1, FrontLast, <1>1 DEF TypeOK
    <2>3. PICK b \in Available(Emptied(pool, d)) :
               /\ pool' = Taken(Emptied(pool, d), d, b)
               /\ content' = [Recycled(pool[d]) EXCEPT ![b] = @ \cup {"ir"}]
      BY <2>1
    <2>4. /\ Emptied(pool, d) \in Pools /\ Owned(Emptied(pool, d))
          /\ allocated = Held(Emptied(pool, d))
      BY <2>2, <1>1, <1>2, EmptiedLemma
    <2>5. b \in Blocks
      BY <2>2, <2>3, <2>4, <1>2, TakenLemma
    <2>6. Recycled(pool[d]) \in [Blocks -> SUBSET Parts]
      BY <1>1, RecycledType
    <2>7. Reset(Emptied(pool, d)["blocks"], Recycled(pool[d]))
      BY <1>1, <1>2, <1>3, <2>2, RecycledReset
    <2>8. Reset(pool'["blocks"], content')
      BY <1>2, <2>2, <2>3, <2>4, <2>5, <2>6, <2>7, TakenReset
    <2> QED BY <1>4, <2>8
  <1>7. CASE NewBlock
    <2>1. Last(open) \in Defs
      BY <1>7, <1>1, FrontLast DEF TypeOK, NewBlock
    <2>2. PICK b \in Available(pool), filled \in {{"ir"}, {"ir", "jump_table"}} :
               /\ pool' = Taken(pool, Last(open), b)
               /\ content' = [content EXCEPT ![b] = @ \cup filled]
      BY <1>7 DEF NewBlock
    <2>3. b \in Blocks
      BY <2>1, <2>2, <1>1, <1>2, TakenLemma
    <2>4. Reset(pool'["blocks"], content')
      BY <1>1, <1>2, <1>3, <2>1, <2>2, <2>3, TakenReset
    <2> QED BY <1>4, <2>4
  <1>8. CASE NewExpressionBlock
    <2>2. PICK b \in Available(pool) :
               /\ pool' = Taken(pool, "expressions", b)
               /\ content' = [content EXCEPT ![b] = @ \cup {"ir"}]
      BY <1>8 DEF NewExpressionBlock
    <2>3. b \in Blocks
      BY <2>2, <1>1, <1>2, TakenLemma
    <2>4. Reset(pool'["blocks"], content')
      BY <1>1, <1>2, <1>3, <2>2, <2>3, TakenReset
    <2> QED BY <1>4, <2>4
  <1>9. CASE EndDefinition
    <2>1. Last(open) \in Defs
      BY <1>9, <1>1, FrontLast DEF TypeOK, EndDefinition
    <2> QED BY <1>3, <1>4, <1>5, <1>9, <2>1 DEF EndDefinition
  <1>10. CASE Parse
    <2>1. def \in Defs \cup {NULL}
      BY <1>1 DEF TypeOK
    <2> QED BY <1>3, <1>4, <1>5, <1>10, <2>1 DEF Parse
  <1>11. CASE ReturnNull
    BY <1>1, <1>2, <1>3, <1>4, <1>11, RecycledReset DEF ReturnNull
  <1>12. CASE Compile
    <2>1. def \in Defs /\ pool' = pool
      BY <1>1, <1>12 DEF Compile, QueueInv, HeldByDriver, TypeOK
    <2>2. PICK R \in SUBSET Range(pool[def]) :
            content' = [b \in Blocks |->
                            IF b \in R THEN (content[b] \ {"jump_table"}) \cup {"color"}
                                       ELSE content[b]]
      BY <1>12 DEF Compile
    <2>3. Range(pool[def]) = {pool[def][i] : i \in 1 .. Len(pool[def])}
      BY <1>1, <1>2, <2>1, RangeEquality DEF Pools
    <2>4. ASSUME NEW i \in 1 .. Len(pool["blocks"])
          PROVE  content'[pool["blocks"][i]] = content[pool["blocks"][i]]
      <3>1. pool["blocks"][i] \in Blocks
        BY <1>1, <1>2, ElementOfSeq DEF Pools
      <3>2. pool["blocks"][i] \notin Range(pool[def])
        BY <1>1, <1>2, <2>1, <2>3 DEF Owned
      <3> QED BY <2>2, <3>1, <3>2
    <2> QED BY <1>3, <1>4, <2>1, <2>4 DEF Reset
  <1>13. CASE Finalize
    <2>1. pool'["blocks"] = <<>>
      BY <1>1, <1>2, <1>13 DEF Finalize, Pools
    <2> QED BY <1>4, <2>1 DEF Reset
  <1>14. CASE pool' = pool /\ content' = content
    BY <1>3, <1>4, <1>14
  <1> QED
    BY <1>6, <1>7, <1>8, <1>9, <1>10, <1>11, <1>12, <1>13, <1>14
       DEF Next, Define, EndDeclaration, BeginDeclaration, ReturnDefinition, Abort, NextFile, vars

\* A block that cfg_block_init may hand out has nothing left of what
\* recycle_block resets, in any order of nested definitions, discarded
\* prototypes and files: no color of an earlier traversal hides a block.
THEOREM RecycledAreReset == Spec => []FreeBlocksReset
  <1>1. Init => FreeBlocksReset
    <2> SUFFICES ASSUME Init PROVE FreeBlocksReset
      OBVIOUS
    <2>1. pool["blocks"] = <<>> /\ Len(pool["blocks"]) = 0
      BY DEF Init, Places
    <2> QED BY <2>1 DEF FreeBlocksReset
  <1> QED
    BY <1>1, QueueInvInit, QueueInvNext, ResetNext, PTL DEF Spec
============================================================================
