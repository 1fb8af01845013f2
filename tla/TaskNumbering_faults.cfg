SPECIFICATION Spec
CONSTANTS
    Configs = {k1, k2}
    NoConfig = NoConfig
    Limit <- FaultyBounds
CHECK_DEADLOCK FALSE
INVARIANTS
    TypeOK
    CountBounded
    FreshNumber
    RegisteredWithoutFaults
PROPERTIES
    CountGrowsWithoutFaults
    ImplementsCounter
