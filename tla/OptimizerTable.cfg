SPECIFICATION FairSpec
CONSTANTS
    x = x
    t = t
    p = p
    s = s
    g = g
    gp = gp
    b1 = b1
    b2 = b2
    b3 = b3
    b4 = b4
    b5 = b5
    Blocks = {b1, b2, b3, b4}
    body = b1
    Syms = {x, t, g}
    Ptrs = {}
    Structs = {}
    Globals = {g}
    Params = {}
    NULL = NULL
    U = U
    Fuel = 8
    Programs <- TablePrograms
    Limit = 64
INVARIANT Equivalent
