SPECIFICATION Spec
CONSTANTS
    Owners = {o1, o2}
    FlowIds = {f1, f2, f3}
    Tokens = {t1, t2, t3}
    None = None
    MaxFlows = 2
    KeepBrowsers = 1
    FlowTTL = 1
    SessionTTL = 2
    MaxClock = 2
    Processes = {p1, p2}
    Statements = 6
    MaxDeaths = 2
INVARIANTS
    LimitsHold
    OpenIsComplete
    TransactionsAreAtomic
PROPERTIES
    OnlyOwnOldestEvicted
CHECK_DEADLOCK FALSE
SYMMETRY StoreSymmetry
