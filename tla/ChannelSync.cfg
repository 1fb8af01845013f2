SPECIFICATION Spec
CONSTANTS
    Categories = {"open", "closed"}
    NoCategory = "none"
    Configs <- SomeConfigs
    Pieces = {"ta", "sk", "cl", "os", "ed", "-1", "bu", "g!"}
    Renames <- Renamed
    Limit <- SyncBounds
CHECK_DEADLOCK FALSE
INVARIANTS
    TypeOK
    CacheAgrees
    InItsCategory
    NameFollows
