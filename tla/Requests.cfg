SPECIFICATION RequestsSpec
CONSTANTS
    Tracks = {"s", "t"}
    Releases = {"x"}
    Performers = {"p", "q"}
    ReleaseOf <- OneRelease
    PerformerOf <- TwoPerformers
    Deleters = {1}
    NoRecord = NoRecord
    MaxFileChanges = 1
    MaxDbErrors = 1
    Songs = {"s", "t"}
    Imported <- ThreeSongs
    Adders = {1}
    MaxListEdits = 2
    MaxPosition = 3
    ListFiles = {"m"}
    NoFile = NoFile
    MaxLists = 2
    MaxListWrites = 1
    MaxListChanges = 2
    MaxListFaults = 1
    Ids = {"m1", "m2", "n1", "n2"}
    Fresh = {"n1", "n2"}
    Libs = {1, 2}
    Bases = {"x", "y"}
    AlbumOf <- FourAlbums
    CreatedAt <- FourTimes
    NoTrack = NoTrack
    Accounts = {"u", "v"}
    Workers = {1, 2}
    MaxLibraries = 3
    MaxManaged = 3
    Askers = {"a"}
    EnabledAgents <- TwoAgents
    Capable <- TheyCan
    Similar <- TwoSimilar
    Blank = Blank
    MaxCopies = 2
    MaxInfoFaults = 1
    MaxExpiries = 1
    MaxCuts = 1
    Listeners = {"u", "v"}
    Handlers = {1, 2}
    NoAnn = NoAnn
    MaxRequests = 3
    MaxDataFaults = 1
    Devices = {1, 2}
    QueueLists <- ThreeLists
    NoQueue = NoQueue
    MaxQueueRequests = 3
    MaxQueueFaults = 1
    ShareIds = {"s"}
    Sharers = {"u", "v"}
    ShareAdmins = {"v"}
    ListOwner = "u"
    Visitors = {1}
    Tunes = {"a", "b"}
    LibOf <- TwoLibs
    Picks = {{"a"}, {"a", "b"}}
    NoShare = NoShare
    DefaultExpiration = 2
    MaxShareTime = 2
    MaxShareEdits = 2
    MaxVisits = 2
INVARIANTS
    CatalogueIsSound
    
    MovesAreFollowed
    
    UserDataIsCoherent
    SharesAreRespected

    
    
CHECK_DEADLOCK FALSE
