SPECIFICATION Spec
CONSTANTS
  Jobs = {j1}
  Names <- MCNames
  Titles <- MCTitles
  Catalog <- MCCatalog
  AlbumArtist <- MCAlbumArtist
  Featured <- MCFeatured
  Normalized <- MCNormalized
  Extracted <- MCExtracted
  Credentialed = {"applemusic", "deezer", "spotify", "tidal"}
  AlbumId = "album"
  Links = {"applemusic", "deezer", "tidal", "ytmusic"}
  Aims = {"all"}
  RedisMayFail = TRUE
INVARIANTS
  TypeOK
  CachedAsRead
  SourceAnsweredAsRead
PROPERTIES
  OnlyTwoSearchesHit
