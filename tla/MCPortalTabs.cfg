SPECIFICATION Spec
CONSTANTS
    Owners = {o1, o2}
    FlowIds = {f1, f2}
    Tokens = {t1, t2}
    None = None
    Browsers = {b1, b2}
    Requests = {r1}
    MaxFlows = 2
    KeepBrowsers = 1
    FlowTTL = 1
    SessionTTL = 1
    AccessTTL = 1
    MaxClock = 1
INVARIANTS
    TabsStayApart
PROPERTIES
    SavedByLiveSession
SYMMETRY PortalSymmetry
CHECK_DEADLOCK FALSE
