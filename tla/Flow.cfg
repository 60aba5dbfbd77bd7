SPECIFICATION Spec
CONSTANTS
    LabelNames <- MCLabels
    Functions <- MCFunctions
    Results = {0, 2}
    MaxSteps = 60
INVARIANTS FlowAsWritten ErrorsAsInC
PROPERTY ParsingEnds
CHECK_DEADLOCK FALSE
