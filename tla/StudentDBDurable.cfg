CONSTANTS
    p1 = p1
    i1 = i1
    i2 = i2
    i3 = i3
    i4 = i4
    None = None
    Procs = {p1}
    MaxId = 1
    Gpas = {341}
    Args = {0, 1}
    Ops = {"a", "d", "x", "z"}
    Faults = {"power", "kill"}
    Inodes = {i1, i2, i3, i4}
SYMMETRY InodeSymmetry
VIEW View
SPECIFICATION SpecD
INVARIANT SafeStudentsOnDisk
