CONSTANTS
    c1 = c1
    c2 = c2
    c3 = c3
    None = None
    Clients = {c1, c2}
    Fds = {3, 4, 5, 6, 7}
    Modes = {TRUE}
    MaxPipes = 1
SPECIFICATION Spec
PROPERTY LastCloseIsListener
