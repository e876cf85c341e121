SPECIFICATION Spec
CONSTANTS
  Tasks = {t1}
  Instances = {i1}
  NoInstance = NoInstance
  MaxRetry = 1
  MayAbandon = TRUE
  StoresMayFail = FALSE
SYMMETRY Symmetry
INVARIANTS
  QueueDoneMeansRecorded
  
PROPERTIES
  QueueNeverReopens
