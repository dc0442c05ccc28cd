SPECIFICATION Spec
CONSTANTS
    Runs <- MCRuns
    Sources <- MCSources
    MaxBase = 1
    NAssets = 2
    MaxAttempt = 2
    Triggers <- MCTriggers
    MaxOverlap = 2
    MaxEvents = 3
    None = None
INVARIANTS
    PlansAreUnique
PROPERTIES
    LedgerOnlyGrows
    PublishedWhole
    OwnDraftPublished
    VersionsGoForward
CHECK_DEADLOCK FALSE
