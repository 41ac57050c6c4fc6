CONSTANTS
    h1 = h1
    h2 = h2
    h3 = h3
    c1 = c1
    c2 = c2
    HandleIds = {h1, h2, h3}
    Parties = {c1, c2}
    Streams = {s1}
    NoHandle = NoHandle
    NoStream = NoStream
    NoFrame = NoFrame
    NoCycle = NoCycle
    NoMotion = NoMotion
    HandleTtl = 3
    ActionStale = 1
    StampOnArrival = FALSE
    Authorities <- MCAuthorities
    MaxTime = 2
    MaxSession = 3
    MaxSequence = 4
    MaxFrameSequence = 1
SPECIFICATION Spec
PROPERTIES
    MotionIsFresh
CHECK_DEADLOCK FALSE
