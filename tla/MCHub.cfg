CONSTANTS
    Robots = {r1}
    Controllers = {c1}
    HandleIds = {h1}
    NoHandle = NoHandle
    NoReport = NoReport
    NoRow = NoRow
    Ttl = 2
    RobotReports <- MCRobotReports
    ControllerReports <- MCControllerReports
    MaxSession = 2
    MaxEpoch = 2
    MaxStarts = 3
SPECIFICATION FairSpec
INVARIANTS
    TypeOK
    BoundNodesPresent
    ActiveIsEarned
PROPERTY RevocationEnds
CHECK_DEADLOCK FALSE
