SPECIFICATION Spec
CONSTANTS
    Keys <- MCKeys
    Vals <- MCVals
    Key <- MCKey
    Hash <- MCHash
    Capacity = 2
    Nodes = {n1, n2, n3}
    NULL = NULL
INVARIANT NodesOwnedOnce
PROPERTY IsAMap
