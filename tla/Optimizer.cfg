SPECIFICATION FairSpec
CONSTANTS
    x = x
    t = t
    p = p
    s = s
    g = g
    gp = gp
    b1 = b1
    b2 = b2
    b3 = b3
    b4 = b4
    b5 = b5
    Blocks = {b1, b2, b3, b4, b5}
    body = b1
    Syms = {x, t, p, s, g, gp}
    Ptrs = {p, gp}
    Structs = {s}
    Globals = {g, gp}
    Params = {x}
    NULL = NULL
    U = U
    Fuel = 8
    Programs <- AllPrograms
    Limit = 5
INVARIANT ReachableListed
INVARIANT DataflowSolved
INVARIANT Equivalent
PROPERTY Terminates
