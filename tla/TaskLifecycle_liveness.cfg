SPECIFICATION FairSpec
CONSTANTS
    Channels = {c1}
    Users = {u1}
    NoUser = NoUser
    NoChannel = NoChannel
    Limit <- LivenessBounds
CHECK_DEADLOCK FALSE
PROPERTIES
    AnnouncedDeletionHappens
    ForgottenOnDelete
