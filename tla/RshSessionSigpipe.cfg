CONSTANTS
    Lines <- AllLines
    Outputs <- AllOutputs
    MaxLines = 2
SPECIFICATION Spec
INVARIANT ServerOutlivesClient
