SPECIFICATION Spec
CONSTANTS
    Wait = 3
    ReadTime = 1
    Poll = 1
    PerPage = 2
    MaxReleases = 3
    MaxCalls = 6
    LastMoment = 1
    Started = 1
INVARIANTS
    NothingOverlooked
PROPERTIES
    ActsOnFacts
    JobEnds
CHECK_DEADLOCK FALSE
