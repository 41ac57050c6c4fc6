CONSTANTS
    h1 = h1
    h2 = h2
    h3 = h3
    r1 = r1
    r2 = r2
    HandleIds = {h1, h2, h3}
    Robots = {r1, r2}
    NoHandle = NoHandle
    HandleTtl = 2
    Authorities <- MCAuthorities
    MaxTime = 2
    MaxSession = 2
    MaxSequence = 4
    MaxRequests = 2
    MaxFrames = 2
SPECIFICATION Spec
INVARIANTS
    TypeOK
    StreamNeedsAuthority
    OneStreamPerRequest
    ReleaseIsFinal
PROPERTIES
    FramesInOrder
    RenewalsExtend
CHECK_DEADLOCK FALSE
