CONSTANTS
    s1 = s1
    s2 = s2
    Sessions = {s1, s2}
    Pipelines <- EchoCat
    CMD_MAX = 2
    MaxRuns = 1
    Failures = {}
CHECK_DEADLOCK FALSE
SPECIFICATION Spec
PROPERTY CommandsComplete
