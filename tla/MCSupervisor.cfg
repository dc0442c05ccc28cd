SPECIFICATION Spec
CONSTANTS
    Children = {alexa, cast}
    StartupTimeout = 3
    ShutdownTimeout = 2
    FailureGrace = 3
    ProbeTimeout = 1
    MaxAge = 3
    MaxSleep = 4
INVARIANTS
    NothingSurvives
    HealthyIsRecent
    GraceIsContinuous
PROPERTIES
    StopsProperly
CHECK_DEADLOCK FALSE
