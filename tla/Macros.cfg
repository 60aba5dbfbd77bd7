SPECIFICATION FairSpec
CONSTANTS
    Programs <- MCPrograms
    Digits <- MCDigits
    VA_ARGS <- MCVA_ARGS
    DOTS <- MCDOTS
    Pragma <- MCPragma
INVARIANTS ExpandedAsInC LineComplete
PROPERTIES ExpansionEnds
