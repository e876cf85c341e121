SPECIFICATION FairSpec
CONSTANTS
  Tasks = {t1}
  Instances = {i1, i2}
  NoInstance = NoInstance
  MaxRetry = 1
  MayAbandon = FALSE
  StoresMayFail = TRUE
INVARIANTS
  TypeOK
  OneRunAtATime
  CompletedHasConversion
PROPERTIES
  ImplementsTaskBoard
  EveryTaskSettles
