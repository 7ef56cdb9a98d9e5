CONSTANTS
  MoTiCount = 1
  MtTis = {8, 9}
  RefCount = 4
  MAX_RETRANS = 1
  TL_MAX_RETANS = 1
  None = None
  MaxDeliveries = 3
  MaxFailures = 1
  MaxQueue = 2
  SlowSim = FALSE
SPECIFICATION MtSpec
CHECK_DEADLOCK FALSE
INVARIANTS
  AckedIsStored
  HoldsItsConnection
  ReleaseIsDelayed
PROPERTIES
  DeliveryEnds
