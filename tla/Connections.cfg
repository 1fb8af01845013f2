SPECIFICATION Spec
CONSTANTS
    MaxConnections = 3
    Limit <- ConnectionBounds
CHECK_DEADLOCK FALSE
INVARIANTS
    TypeOK
    OneLeakPerEvent
    RefusedLate
