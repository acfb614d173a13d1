CONSTANTS
    None = None
    Pools = {local}
    PoolOf <- OnePool
    Stamps = {0, 1, 2}
    Images = {0, 2}
    Items = {album}
    Tracks = {}
    LookupFails = FALSE
    Concurrency = 1
    MaxVersion = 2
    MaxAttempts = 1
    MaxFaults = 1
    MaxRefreshes = 1
    MaxCrashes = 1
SPECIFICATION FairSpec
INVARIANT RequestsAreHonoured
PROPERTIES  ArtworkSettles
