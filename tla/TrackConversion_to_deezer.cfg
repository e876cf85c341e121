SPECIFICATION Spec
CONSTANTS
  Jobs = {j1, j2}
  Names <- MCNames
  Titles <- MCTitles
  Catalog <- MCCatalog
  AlbumArtist <- MCAlbumArtist
  Featured <- MCFeatured
  Normalized <- MCNormalized
  Extracted <- MCExtracted
  Credentialed = {"deezer", "spotify"}
  AlbumId = "album"
  Links = {"deezer", "spotify"}
  Aims = {"deezer", "tidal"}
  RedisMayFail = FALSE
INVARIANTS
  AnswersAreThePlatformsOwn
PROPERTIES
  DeezerHitsTheSong
  ImplementsIndependentConversions
SYMMETRY JobSymmetry
