SPECIFICATION MediaSpec
CONSTANTS
    Parts = {"scrobbles", "sessions", "libraries", "images", "transcoding", "jukebox", "editing"}
    u1 = u1  u2 = u2  m1 = m1  m2 = m2
    r1 = r1  r2 = r2  r3 = r3  r4 = r4
    None = None
    UserOf <- FourUsers
    MediaOf <- FourSongs
    PlayTime <- FourTimes
    Media = {m1, m2}
    trackA = trackA  trackB = trackB
    start = start  play = play  stop = stop  stopB = stopB
    NoSession = NoSession
    Tracks = {trackA, trackB}
    TrackOf <- ReportTracks
    StateOf <- ReportedStates
    Scrobbles <- PastThreshold
    Users = {u1}
    Rows = {r1, r2, r3}
    Deletable = {m1}
    Broken = {}
    MaxFaults = 1
    MaxCrashes = 1
    Reports = {start, play, stopB}
    MaxLoadFaults = 1
    MaxExpiries = 1
    LibIds = {1}
    LibPaths = {"p", "q"}
    NoPath = NoPath
    MaxRequests = 2
    MaxWatchers = 3
    ArtItems = {"e", "f"}
    InStore = {"e"}
    Hashes = {"h", "g"}
    Codecless = {"g"}
    Acquirers = {"w"}
    NoRow = NoRow
    NoJob = NoJob
    MaxChanges = 1
    MaxHours = 1
    MaxRestarts = 1
    Requests = {1, 2, 3}
    Keys = {"k"}
    Listening = {"ann", "anon"}
    Anonymous = "anon"
    MaxConcurrent = 1
    MaxConcurrentPerUser = 1
    OnDisk = OnDisk
    Nothing = Nothing
    MaxStops = 1
    Songs = {"s", "t"}
    Unknown = Unknown
    Clients = {1}
    Switcher = Switcher
    Gains = {1, 2}
    DefaultGain = 1
    MaxTracks = 3
    MaxControls = 4
    MaxItems = 3
    Editors = {1, 2}
    Texts = {"a"}
    Sidecars <- TwoSidecars
    NoText = NoText
    NoEdit = NoEdit
    MaxEdits = 2
    MaxForeign = 1
    MaxEditFaults = 1
INVARIANTS
    NoLostWakeup
    ScrobblesAreKept
    WatchersAreRegistered
    ReferencedImageIsStored
    TranscodesEndCleanly
PROPERTIES
    SessionsFollowReports
    
    EditsAreSafe
CHECK_DEADLOCK FALSE
