SPECIFICATION FairSpec
CONSTANTS
    Inputs <- AllInputs
    BufferSize = 5
    MaxChars = 6
INVARIANT WithinBuffer
INVARIANT LinesAsWritten
PROPERTY Finishes
