SPECIFICATION Spec
CONSTANTS
    Channels = {c1}
    Users = {u1}
    NoUser = NoUser
    NoChannel = NoChannel
    Limit <- FaultyBounds
CHECK_DEADLOCK FALSE
INVARIANTS
    TypeOK
    CreatorKept
    OpenXorClosed
    NotStranded
    NoOrphan
PROPERTIES
    RecordKept
    DeletionStands
    ImplementsLedger
