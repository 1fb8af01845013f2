SPECIFICATION Spec
CONSTANTS
    Configs = {k1, k2}
    NoConfig = NoConfig
    Limit <- BusyBounds
CHECK_DEADLOCK FALSE
PROPERTIES
    CountGrows
