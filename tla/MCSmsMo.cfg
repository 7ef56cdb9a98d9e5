CONSTANTS
  MoTiCount = 3
  MtTis = {}
  RefCount = 4
  MAX_RETRANS = 1
  TL_MAX_RETANS = 1
  None = None
  MaxSubmits = 2
  MaxFailures = 2
  MaxQueue = 3
  Stray = FALSE
  PrepareFails = FALSE
SPECIFICATION MoSpec
CHECK_DEADLOCK FALSE
INVARIANTS
  SubmitIsServed
  SduIsKept
  ConnectionsReleased
PROPERTIES
  ImplementsService
  SubmitIsConfirmed
