SPECIFICATION Spec
CONSTANTS
    Owners = {o1}
    FlowIds = {f1}
    Tokens = {t1}
    None = None
    Browsers = {b1}
    Requests = {r1}
    MaxFlows = 2
    KeepBrowsers = 1
    FlowTTL = 1
    SessionTTL = 1
    AccessTTL = 1
    MaxClock = 0
INVARIANTS
    ErasureLeavesNoSession
SYMMETRY PortalSymmetry
CHECK_DEADLOCK FALSE
