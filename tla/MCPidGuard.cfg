CONSTANTS
    w1 = w1
    w2 = w2
    w3 = w3
    a = a
    b = b
    c = c
    d = d
    None = None
    Window = {w1, w2, w3}
    Session = {a, b, c}
    Home <- OwnWindow
    ByCommand = {a}
    Dead = {w3}
    DiesInside = TRUE
SPECIFICATION Spec
INVARIANTS
    GuardIsExclusive
\* A window stops when all its sessions are over.
CHECK_DEADLOCK FALSE
