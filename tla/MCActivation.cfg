CONSTANTS
    Client = {c1, c2}
    Port = {p1, p2}
    MaxRuntime = 3
    Foreign = {2}
    None = None
SPECIFICATION Spec
SYMMETRY ClientPortSymmetry
INVARIANTS TypeOK EnginesAreExclusive RecordIsOfItsListener
PROPERTIES CredentialFits OutcomeFitsTarget
\* Every attempt ends.
CHECK_DEADLOCK FALSE
