CONSTANTS
    w1 = w1
    w2 = w2
    w3 = w3
    a = a
    b = b
    c = c
    d = d
    None = None
    Window = {w1, w2, w3}
    Session = {a, b, c, d}
    Home <- Together
    ByCommand = {a}
    Dead = {w3}
    DiesInside = FALSE
CONSTRAINT BriefOrTakeover
SPECIFICATION Spec
INVARIANTS
    TypeOK
    GuardIsExclusive
    OneClaimPerWindow
    ActiveSessionHoldsLock
PROPERTIES
    LiveLockChangedByItsWindow
\* A window stops when all its sessions are over.
CHECK_DEADLOCK FALSE
