SPECIFICATION FairSpec
CONSTANTS
    Half = 8
    Threshold = 3
    LinearMax = 4
    Default = Default
    Switches <- AllSwitches
    MaxCases = 6
    Bases <- SignedBases
INVARIANT NoWildJump
INVARIANT CaseReachesItsLabel
INVARIANT ExactWithoutSearch
PROPERTY DispatchEnds
CHECK_DEADLOCK FALSE
