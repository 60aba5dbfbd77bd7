SPECIFICATION FairSpec
CONSTANTS
    Blocks = {b1,b2,b3}
    Defs = {d1,d2,d3}
    NULL = NULL
    MaxDepth = 2
    MaxInput = 4
INVARIANT TypeOK
INVARIANT BlocksOwnedOnce
INVARIANT NoBlockLost
INVARIANT PooledAreUnused
INVARIANT HandedOutIsComplete
INVARIANT FreeBlocksReset
PROPERTY EmittedInOrder
PROPERTY EveryDefinitionCompiled
CHECK_DEADLOCK FALSE
