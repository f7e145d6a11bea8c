CONSTANTS
    Session = {s1}
    Pid = {p1}
    None = None
    TTL = 2
    HeartbeatDelay = 1
    MaxTime = 4
    MaxLease = 1
    MaxCalls = 1
SPECIFICATION Spec
INVARIANTS
    ActiveLeaseIsHeldByTarget
\* The bounds on calls, generations and time let the system run out of steps.
CHECK_DEADLOCK FALSE
