CONSTANTS
    Robots = {r1}
    Controllers = {c1}
    HandleIds = {h1, h2}
    NoHandle = NoHandle
    NoReport = NoReport
    NoRow = NoRow
    Ttl = 1
    RobotReports <- MCFewRobotReports
    ControllerReports <- MCFewControllerReports
    MaxSession = 1
    MaxEpoch = 1
    MaxStarts = 2
SPECIFICATION Spec
PROPERTY ReassignedOnceConfirmed
SYMMETRY Symmetry
CHECK_DEADLOCK FALSE
