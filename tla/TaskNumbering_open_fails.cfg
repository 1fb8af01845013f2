SPECIFICATION Spec
CONSTANTS
    Configs = {k1, k2}
    NoConfig = NoConfig
    Limit <- OpenFailBounds
CHECK_DEADLOCK FALSE
INVARIANTS
    RegisteredMeansInForce
