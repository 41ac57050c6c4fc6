CONSTANTS
    Robot = r
    Controllers = {c}
    HandleIds = {h}
    NoHandle = NoHandle
    NoRow = NoRow
    Ttl = 2
    MaxRequests = 1
    MaxLosses = 1
    MaxQueue = 2
SPECIFICATION Spec
INVARIANTS
    InputUnderLease
    EndReachesBoth
CHECK_DEADLOCK FALSE
