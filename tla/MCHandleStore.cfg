\* Two Robots and two Controllers compete for two Handles across two restarts.
CONSTANTS
    Robots = {r1, r2}
    Controllers = {c1, c2}
    HandleIds = {h1, h2}
    NoRow = NoRow
    MaxTime = 2
    MaxTtl = 1
    MaxEpoch = 4
    MaxSequence = 2
SPECIFICATION Spec
SYMMETRY Symmetry
INVARIANTS
    TypeOK
    ExclusiveLive
    FencingOrders
    HistoryLawful
    NoEarlierEpochAuthority
PROPERTIES
    EndedForGood
    ImplementsAuthority
CHECK_DEADLOCK FALSE
