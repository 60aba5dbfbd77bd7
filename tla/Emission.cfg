SPECIFICATION FairSpec
CONSTANTS
    NoBlock = 0
    Graphs <- MCGraphs
INVARIANTS EmittedAsBuilt LaidOut
PROPERTY EmissionEnds
CHECK_DEADLOCK FALSE
