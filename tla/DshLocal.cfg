CONSTANTS
    Plain = {"x", "c"}
    CMD_MAX = 3
    CMD_ARGV_MAX = 3
    SH_CMD_MAX = 16
    EXPANDED_MAX = 26
    MallocFails = TRUE
    Lines <- AllLines
    MaxLines = 2
    EXIT_CMD <- Exit
    CD_CMD <- Cd
    RC_CMD <- Rc
    DRAGON_CMD <- Dragon
    STOP_CMD <- Stop
    Statuses = {0, 1}
    ERRNO = 2
SPECIFICATION Spec
INVARIANTS TypeOK BuffersFit ParsedAsMeant BuffersFreed
