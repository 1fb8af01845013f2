SPECIFICATION Spec
CONSTANTS
    Channels = {c1}
    Users = {u1}
    NoUser = NoUser
    NoChannel = NoChannel
    Limit <- ReopenBounds
CHECK_DEADLOCK FALSE
PROPERTIES
    DeletesOnlyClosed
