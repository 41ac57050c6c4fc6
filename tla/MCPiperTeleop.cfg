SPECIFICATION Spec
CONSTANTS
    MaxSessions = 2
    MaxPresses = 2
    MaxHandles = 2
INVARIANTS
    MotionNeedsTakeOver
CHECK_DEADLOCK FALSE
