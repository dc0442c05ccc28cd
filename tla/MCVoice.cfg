SPECIFICATION Spec
CONSTANTS
    Budget = 30
    Least = 2
    Headroom = 2
    IdentityHeadroom = 15
    IdentityTimeout = 12
    GatewayTimeout = 24
    BusyWait = 5
    MaxSlow = 30
    MaxPause = 2
INVARIANTS
    TimeIsShared
    AnswerReady
CHECK_DEADLOCK FALSE
