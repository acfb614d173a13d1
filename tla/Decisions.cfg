SPECIFICATION DecisionsSpec
CONSTANTS
  TagsOf <- FlacThenMp3Tags
  ProbeOf <- FlacThenMp3Probes
  StampOf <- TwoSeconds
  Devices <- SomeDevices
  Downsampling = "opus"
  AutoTranscodeDownload = TRUE
  LegacyFormats = {"", "raw", "mp3", "flac", "wma"}
  LegacyRates = {0, 100, 1000}
  Offsets = {0, 7}
  NoFacts = NoFacts
  Scenes <- SomeScenes
  SongRows <- FiveRows
  Today = 100
  Null = Null
  MaxRatings = 1
  MaxRuleFaults = 1
  Library <- FiveTracks
  Artists <- ThreeArtists
  Batches <- SomeBatches
  SeedBatches <- SomeSeedBatches
  Counts = {1, 2, 3}
  Nil = Nil
  Threshold = 85
  MaxMatchFaults = 1
INVARIANTS  MixIsAsRecommended
 
CHECK_DEADLOCK FALSE
