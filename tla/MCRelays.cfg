SPECIFICATION Spec
CONSTANTS
    Sizes = {0, 1, 2, 3, 4, 5}
    RequestLimit = 3
    ReplyLimit = 4
INVARIANTS
    WholeBodies
    Released
PROPERTIES
    Contract
    Settles
\* A request ends, and with it the behaviour.
CHECK_DEADLOCK FALSE
