SPECIFICATION ServicesSpec
CONSTANTS
    Dirs = {"r", "a", "b"}
    Root = "r"
    Above <- Tree
    Hidden = {}
    Rules <- SomeRules
    Selective = TRUE
    Idle = Idle
    QueueSize = 1
    MaxWrites = 2
    MaxErrors = 1
    Conns = {"c", "d", "e"}
    Uid <- ClientUid
    Owner <- ClientOwner
    Server = Server
    QueueLen = 1
    PublishLen = 1
    MaxEvents = 1
    Calls = {1, 2, 3, 4}
    Limit = 1
    BacklogLimit = 1
    Getters = {1, 2, 3}
    Absent = Absent
    Failed = Failed
    MaxLoads = 3
    Fetchers = {f, g}
    BreakerThreshold = 2
    ProbeAfter = 2
    MaxFailures = 4
    MaxOutages = 1
PROPERTIES
    
    EventsAreSpread
    ThrottleServes
    MissesShareOneLoad
    BreakerProbes
CHECK_DEADLOCK FALSE
