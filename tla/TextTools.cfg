SPECIFICATION Spec
CONSTANTS
    Args <- MCArgs
    Chars <- MCChars
    LINE_BUFFER_SZ = 6
    MallocFails = TRUE
    Missing = Missing
INVARIANTS TypeOK GrepIsRight CountsAreRight
PROPERTIES Terminates
