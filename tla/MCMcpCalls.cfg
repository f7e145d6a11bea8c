CONSTANTS
    c1 = c1
    c2 = c2
    Caller = {c1, c2}
    Vs = {v1}
    Target = {t1}
    None = None
    MaxRef = 2
    MaxCalls = 2
    MaxMessages = 4
    MaxRequests = 2
SPECIFICATION Spec
SYMMETRY CallerSymmetry
INVARIANTS TypeOK StopsAreKnown InspectionIsOfItsStop TargetsAreOneShot WaitsMissNothing NoOrphanBreakpoints
PROPERTIES ResumesAreCurrent DeadStayDead
CHECK_DEADLOCK FALSE
