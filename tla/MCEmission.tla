----------------------------- MODULE MCEmission -----------------------------
(***************************************************************************)
(* Flow graphs for BlockEmission: every small one, loops as the parser     *)
(* lays them out, and every comparison forwards and backwards.  Left out   *)
(* are branches that lead to the same place both ways and cycles of blocks *)
(* with nothing in them.                                                   *)
(***************************************************************************)
EXTENDS EmissionMeaning

Value == [op |-> "value", type |-> "int", constant |-> "none"]
B(n, jump, body, table, cond) ==
    [stmts |-> n, jump |-> jump, body |-> body, table |-> table, cond |-> cond]
Leaf(n) == B(n, <<Null, Null>>, Null, <<>>, Value)
Line(n, to) == B(n, <<to, Null>>, Null, <<>>, Value)
Fork(n, else, then, c) == B(n, <<else, then>>, Null, <<>>, c)
LoopHead(top, body) == B(0, <<top, Null>>, body, <<>>, Value)
Switch(entries) == B(0, <<Null, Null>>, Null, entries, Value)

Plain(n, ids) ==
    {Leaf(n)} \cup {Line(n, to) : to \in ids}
    \cup {Fork(n, else, then, Value) : else \in ids, then \in ids}

Small ==
    {<<a, b, c>> : a \in Plain(0, 2..3) \cup {LoopHead(t, 2) : t \in 2..3} \cup {Switch(<<2, 3, 2>>), Switch(<<3, 3>>)},
                   b \in Plain(1, 1..3) \cup Plain(0, 1..3),
                   c \in Plain(0, 1..3) \cup Plain(2, 1..3)}

(* The blocks 2 to 5 are head, top, body and next of a loop; the body may  *)
(* leave it, go back in the middle or contain another loop.                *)
LoopsOf(c) ==
    {<<Line(1, 2), LoopHead(3, 4), Fork(n, 5, 4, c), b, Leaf(1), Line(m, 3)>> :
        n \in 0..1, m \in 0..1,
        b \in {Line(1, 3), Line(0, 6), Fork(0, 3, 5, c), Fork(1, 6, 5, c), Fork(0, 6, 3, c), Fork(1, 5, 6, c)}}
    \cup {<<Line(1, 2), LoopHead(3, 4), Fork(0, 9, 4, c), Line(1, 5), LoopHead(6, 7), Fork(0, 8, 7, c), b, Line(m, 3), Leaf(0)>> :
        m \in 0..1, b \in {Line(1, 6), Fork(1, 6, 8, c), Fork(0, 3, 6, c), Fork(1, 9, 6, c)}}

(* A branch with neither, one or both of its successors emitted before. *)
Compared ==
    UNION {{<<Fork(0, 2, 3, c), Leaf(1), Leaf(2)>>, <<Line(0, 2), Line(1, 3), Fork(0, 4, 2, c), Leaf(1)>>,
            <<Line(0, 2), Line(1, 3), Fork(0, 2, 4, c), Leaf(1)>>,
            <<Line(1, 2), Line(1, 3), Fork(1, 1, 2, c)>>} \cup LoopsOf(c) : c \in Conditions}

(* Whether a branch leads to two places, and no cycle is empty. *)
IsProper(g) ==
    LET Through(b) == g[b].stmts = 0 /\ g[b].table = <<>> /\ g[b].jump[1] # Null /\ g[b].jump[2] = Null
        Leads == [b \in DOMAIN g |-> IF Through(b) THEN g[b].jump[1] ELSE b]
        Twice(f) == [b \in DOMAIN g |-> f[f[b]]]
        End == Twice(Twice(Twice(Leads)))
    IN  \A b \in DOMAIN g :
            /\ ~Through(End[b])
            /\ g[b].jump[2] # Null => End[g[b].jump[1]] # End[g[b].jump[2]]

MCGraphs == {g \in Small \cup Compared : IsProper(g)}
=============================================================================
