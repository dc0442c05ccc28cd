SPECIFICATION Spec
CONSTANTS
    Owners = {o1}
    FlowIds = {f1, f2}
    Tokens = {t1, t2}
    None = None
    Browsers = {b1}
    Requests = {r1, r2}
    MaxFlows = 2
    KeepBrowsers = 1
    FlowTTL = 1
    SessionTTL = 1
    AccessTTL = 1
    MaxClock = 0
INVARIANTS
    EraseIsFinal
    FlowSpentOnce
PROPERTIES
    Promise
SYMMETRY PortalSymmetry
CHECK_DEADLOCK FALSE
