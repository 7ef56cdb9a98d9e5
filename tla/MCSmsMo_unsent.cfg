CONSTANTS
  MoTiCount = 3
  MtTis = {}
  RefCount = 4
  MAX_RETRANS = 1
  TL_MAX_RETANS = 1
  None = None
  MaxSubmits = 2
  MaxFailures = 1
  MaxQueue = 2
  Stray = FALSE
  PrepareFails = TRUE
SPECIFICATION MoSpec
CHECK_DEADLOCK FALSE
INVARIANT SubmitIsServed
