CONSTANTS
    Session = {s1}
    Pid = {p1}
    None = None
    TTL = 2
    HeartbeatDelay = 1
    MaxTime = 3
    MaxLease = 2
    MaxCalls = 3
SPECIFICATION FairSpec
INVARIANTS
    TypeOK
    HeartbeatAlive
PROPERTIES
    RetiredForever
    ImplementsLifecycle
    RetiredLeaseLeavesTarget
\* The bounds on calls, generations and time let the system run out of steps.
CHECK_DEADLOCK FALSE
