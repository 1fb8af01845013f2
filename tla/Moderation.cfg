SPECIFICATION FairSpec
CONSTANTS
    Users = {"ann", "bob"}
    Moderators = {"ann"}
    Bot = "bot"
    Limit <- ModerationBounds
CHECK_DEADLOCK FALSE
INVARIANTS
    TypeOK
    AuditedForItself
    ToldTheTruth
    AnsweredWhenQuiet
PROPERTIES
    AnsweredInTheEnd
    ImplementsTrail
