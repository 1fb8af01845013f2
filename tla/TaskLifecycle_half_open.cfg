SPECIFICATION Spec
CONSTANTS
    Channels = {c1}
    Users = {u1}
    NoUser = NoUser
    NoChannel = NoChannel
    Limit <- HalfOpenBounds
CHECK_DEADLOCK FALSE
PROPERTIES
    DeletionForgets
