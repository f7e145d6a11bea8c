CONSTANTS
    w1 = w1
    w2 = w2
    w3 = w3
    a = a
    b = b
    c = c
    d = d
    None = None
    Window = {w1, w2}
    Session = {a, b, c}
    Home <- Together
    ByCommand = {a}
    Dead = {w2}
    DiesInside = TRUE
SPECIFICATION FairSpec
PROPERTIES
    ThreadsGetThrough
    AbandonmentSettles
\* A window stops when all its sessions are over.
CHECK_DEADLOCK FALSE
