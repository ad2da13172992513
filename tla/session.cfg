SPECIFICATION FairSpec
CONSTANTS
    PluginType <- MCPluginType
    Confs <- AllConfs
    BufSize = 2
    PipeSize = 1
CHECK_DEADLOCK FALSE
INVARIANTS
    CloseOrder
    Audited
    OutcomeTrue
    LoggedFirst
PROPERTIES
    SessionEnds
    StopsPassedOn
