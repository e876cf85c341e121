SPECIFICATION FairSpec
CONSTANTS
  MaxTracks = 5
  PageSize = 2
  WebhooksMayFail = TRUE
INVARIANTS
  TypeOK
  FeedInOrder
  DoneTellsAll
  ResultPartitionsSource
PROPERTIES
  ConversionEnds
  NearsItsEnd
  ImplementsSequentialConversion
CHECK_DEADLOCK FALSE
