SPECIFICATION FairSpec
CONSTANTS
    Names = {"X", "Y"}
    Programs <- AllPrograms
    MaxPeek = 2
    Holds <- MCHolds
    NULL = NULL
    Width = 4
    MaxLines = 5
    MaxParts = 4
INVARIANT TypeOK
INVARIANT BranchesNest
INVARIANT Delivers
PROPERTY Ends
