CONSTANTS
    c1 = c1
    c2 = c2
    Caller = {c1}
    Vs = {v1}
    Target = {t1}
    None = None
    MaxRef = 2
    MaxCalls = 1
    MaxMessages = 4
    MaxRequests = 1
SPECIFICATION Spec
INVARIANTS EndedSessionsAreNotRunning
CHECK_DEADLOCK FALSE
