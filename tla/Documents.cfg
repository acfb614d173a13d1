SPECIFICATION DocumentsSpec
CONSTANTS
  Parts = {"ids", "credits", "albums", "timed", "lyrics"}
  Files = {"f", "g"}
  Taggings <- FourTaggings
  Places <- ThreePlaces
  Configs <- ThreeConfigs
  NoSong = NoSong
  MaxFileEdits = 2
  Letters <- AtoC
  Exceptions <- Protected
  ArtistLists <- SomeArtists
  AlbumLists <- NoneOrOne
  ComposerLists <- SomeComposers
  PlayerLists <- SomeCasts
  Paths = {1, 2, 3}
  Recordings <- FiveRecordings
  NoAlbum = NoAlbum
  MaxSongChanges = 1
  Shapes <- FourShapes
  Rates <- OneRate
  NoAttr = NoAttr
  Stamps <- Times
  StampLists <- TimeLists
  Contents <- Bodies
  WordLists <- Worded
  MaxFileLines = 3
INVARIANTS CreditsAreKept 
PROPERTIES IdsAreStable AlbumIsOfItsSongs
CHECK_DEADLOCK FALSE
