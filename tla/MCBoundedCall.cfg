SPECIFICATION Spec
CONSTANTS
    Callers = {c1, c2}
    Workers = {w1, w2}
    Questions = {q1, q2}
    None = None
    Slots = 2
INVARIANTS
    SlotsConserved
    OwnAnswer
PROPERTIES
    CallsEndInTime
    SlotsComeBack
