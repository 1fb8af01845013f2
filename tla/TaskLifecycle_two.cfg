SPECIFICATION Spec
CONSTANTS
    Channels = {c1, c2}
    Users = {u1, u2}
    NoUser = NoUser
    NoChannel = NoChannel
    Limit <- TwoTaskBounds
SYMMETRY Symmetry
CHECK_DEADLOCK FALSE
INVARIANTS
    CreatorKept
    NotStranded
PROPERTIES
    RecordKept
