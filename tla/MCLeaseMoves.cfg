CONSTANTS
    Session = {s1, s2}
    Pid = {p1, p2}
    None = None
    TTL = 2
    HeartbeatDelay = 1
    MaxTime = 0
    MaxLease = 1
    MaxCalls = 3
SYMMETRY SessionPidSymmetry
SPECIFICATION Spec
INVARIANTS
    LiveLeaseIsCurrentAndWanted
    ReleasedLeaseLeavesNoFile
    OwnersMatchSessions
    LatestCallWins
    DisposedIsEmpty
\* The bounds on calls, generations and time let the system run out of steps.
CHECK_DEADLOCK FALSE
