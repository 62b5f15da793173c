CONSTANTS
    dsh = dsh
    Shell = dsh
    Sessions = {dsh}
    Pipelines <- SomePipelines
    CMD_MAX = 3
    MaxRuns = 2
    Failures = {"pipe", "fork", "exec"}
    Statuses = {0}
    ERRNO = 11
    ERR_CMD_ARGS_BAD <- ErrCmdArgsBad
    SIGPIPE = 13
SPECIFICATION ShellSpec
INVARIANTS ShellTypeOK NoPipeLeft NoStrayChild StatusOfLine
PROPERTIES AnswerAfterAllCommands CommandsComplete ChildrenEnd
