SPECIFICATION Spec
CONSTANTS
    Channels = {c1, c2}
    SleepTicks = 2
    Latency = 1
    Limit <- LifetimeBounds
SYMMETRY ChannelSymmetry
CHECK_DEADLOCK FALSE
INVARIANTS
    TypeOK
    Prompt
    ReadSoon
