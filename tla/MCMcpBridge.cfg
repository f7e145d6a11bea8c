CONSTANTS
    c1 = c1
    c2 = c2
    w1 = w1
    w2 = w2
    None = None
    Window = {w1, w2}
    Port = {p1, p2}
    Client = {c1, c2}
    Selection <- HowSelected
    Wanted <- WantsFirst
    Parent <- ChildOfSecond
    MaxLines = 2
    ClientOf <- Senders
    Kind <- Kinds
    MaxRuns = 2
    MaxFaults = 1
SPECIFICATION Spec
CONSTRAINT Brief
SYMMETRY PortSymmetry
INVARIANTS TypeOK MutatingRunsOnce ExplicitWindowOnly AbortsFit LiveManifestIsServed
\* Every request ends, and every window may.
CHECK_DEADLOCK FALSE
