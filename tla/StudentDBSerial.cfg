CONSTANTS
    p1 = p1
    p2 = p2
    i1 = i1
    i2 = i2
    i3 = i3
    i4 = i4
    None = None
    Procs = {p1}
    MaxId = 2
    Gpas <- AllGpas
    Args <- AllArgs
    Ops = {"a", "c", "d", "f", "p", "x", "z"}
    Faults = {"io", "kill"}
    Inodes = {i1, i2, i3}
SYMMETRY InodeSymmetry
VIEW View
SPECIFICATION Spec
INVARIANTS TypeOK SlotsMatchIds
PROPERTY ImplementsStore
