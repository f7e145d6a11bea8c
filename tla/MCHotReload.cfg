CONSTANTS
    w1 = w1
    w2 = w2
    File = {f1}
    Thread = {w1, w2}
    Control = Control
    None = None
    MaxSaves = 2
    MaxLease = 2
    MaxBatch = 2
    MaxRequest = 2
SPECIFICATION Spec
SYMMETRY ThreadSymmetry
INVARIANTS TypeOK LeasedTargetIsWatched
PROPERTIES ReportedIsLoaded ChangesAreKept
\* The bounds on saves, leases, batches and requests let the system run out of steps.
CHECK_DEADLOCK FALSE
