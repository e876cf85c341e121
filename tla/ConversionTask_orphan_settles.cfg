SPECIFICATION UndisturbedSpec
CONSTANTS
  Tasks = {t1}
  Instances = {i1}
  NoInstance = NoInstance
  MaxRetry = 1
  MayAbandon = FALSE
  StoresMayFail = FALSE
SYMMETRY Symmetry
PROPERTIES
  OrphanSuccessSettlesTask
CHECK_DEADLOCK FALSE
