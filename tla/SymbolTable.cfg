SPECIFICATION Spec
CONSTANTS
    Names = {x, y}
    Types = {t1, Incomplete}
    Incomplete = Incomplete
    Follows = {";", ",", "body"}
    MaxDepth = 3
    MaxSymbols = 2
INVARIANT FoundIsLive
INVARIANT OneSymbolInFileScope
INVARIANT DefinedOnce
SYMMETRY Symmetry
PROPERTY ScopesAreAStack
