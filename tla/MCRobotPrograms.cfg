SPECIFICATION Spec
CONSTANTS
    MaxSenders = 2
    MaxChildren = 2
    MaxRequests = 2
    TargetTimeout = 1
    DisableOnExit = TRUE
    Chunk = 2
    ThresholdPercent = 100
    MaxSteps = 5
    MaxResets = 1
    NumTasks = 2
    NumEpisodes = 2
    Control = 1
    MaxTakes = 2
INVARIANTS
    TypeOK
    MovedAsMeant
    LeftAccounted
    AnswersMatch
PROPERTIES
    PlannedMoveOutsideServo
    EverythingEnds
CHECK_DEADLOCK FALSE
