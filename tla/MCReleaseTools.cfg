SPECIFICATION Spec
CONSTANTS
    Inputs = {i1, i2}
    MaxEdits = 1
    MaxErrors = 1
    MaxKills = 1
    Preparers = {p1, p2}
    MaxVersion = 2
    MaxEvents = 2
    Mergers = {m1, m2}
    MaxLeaves = 2
    MaxDepth = 1
    MaxWalked = 4
    MaxSize = 3
INVARIANTS
    Attested
    NothingReverted
PROPERTIES
    OneImageEach
    EditsSurvive
    SyncConverges
    ReviewSurvives
    PreparationEnds
\* A merge that found its destination taken is over.
CHECK_DEADLOCK FALSE
