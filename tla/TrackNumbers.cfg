SPECIFICATION DocumentsSpec
CONSTANTS
  Parts = {"ids"}
  Files = {"f", "g"}
  Taggings <- TwoDiscs
  Places <- ThreePlaces
  Configs <- OnlyDefault
  NoSong = NoSong
  MaxFileEdits = 0
  Letters <- AtoC
  Exceptions <- Protected
  ArtistLists <- SomeArtists
  AlbumLists <- NoneOrOne
  ComposerLists <- SomeComposers
  PlayerLists <- SomeCasts
  Paths = {1, 2, 3}
  Recordings <- FiveRecordings
  NoAlbum = NoAlbum
  MaxSongChanges = 1
  Shapes <- FourShapes
  Rates <- OneRate
  NoAttr = NoAttr
  Stamps <- Times
  StampLists <- TimeLists
  Contents <- Bodies
  WordLists <- Worded
  MaxFileLines = 3
INVARIANTS NumberedSongsDiffer
CHECK_DEADLOCK FALSE
