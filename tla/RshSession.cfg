CONSTANTS
    Lines <- AllLines
    Outputs <- AllOutputs
    MaxLines = 3
SPECIFICATION FairSpec
INVARIANTS TypeOK InStep
PROPERTIES Answered HandlerEnds
