SPECIFICATION Spec
CONSTANTS
    NumEpisodes = 1
    MaxTakes = 2
    Keyboard = {"stop"}
    MaxSessions = 2
    MaxPresses = 2
    MaxHandles = 2
    Peers = {n1, n2}
    management_inbox_max = 2
    MaxSent = 2
    MaxOpens = 2
    Threads = {t1, t2, t3}
    Others = {"publisher"}
    MaxReads = 1
    MaxNodeSessions = 3
    MaxStarts = 2
    MaxEpochs = 2
    MaxDrops = 1
    missed_acks = 1
INVARIANTS
    TypeOK
    TargetsAreFresh
    MovedByOperator
    RecordingIsWhole
    TeardownAccounted
    MessagesAccounted
PROPERTIES
    EverythingEnds
CHECK_DEADLOCK FALSE
