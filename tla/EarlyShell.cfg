CONSTANTS
    Plain = {"x", "c", "e"}
    CMD_MAX = 2
    CMD_ARGV_MAX = 3
    SH_CMD_MAX = 8
    MallocFails = TRUE
    Stages = {"P1", "P2"}
    Typed <- AllLines
    MaxLines = 2
    EXIT_CMD <- ExitName
    CD_CMD <- Cd
    RC_CMD <- Rc
    DRAGON_CMD <- Dragon
    Statuses = {0, 1}
    Signals = {9}
    ENOENT = 2
    EACCES = 13
    EAGAIN = 11
VIEW View
SPECIFICATION Spec
INVARIANTS TypeOK BuffersFit ParsedAsMeant BuffersFreed WholeLines
PROPERTIES FailureIsTold
