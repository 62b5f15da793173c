CONSTANTS
    p1 = p1
    p2 = p2
    i1 = i1
    i2 = i2
    i3 = i3
    i4 = i4
    None = None
    Procs = {p1, p2}
    MaxId = 2
    Gpas = {341}
    Args = {0, 1, 2}
    Ops = {"a", "x"}
    Faults = {}
    Inodes = {i1, i2, i3}
SPECIFICATION Spec
PROPERTY CompressKeepsStudents
