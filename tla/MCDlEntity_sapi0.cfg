\* SAPI 0 on SDCCH under any frame of SmallFrames.
SPECIFICATION Spec
CONSTANTS
  Sapi = 0
  a = a
  rel_msg = rel_msg
  Msgs = {a}
  Segs <- One
  Cnf = {a}
  Info = {a, rel_msg}
  ChannelRelease = {rel_msg}
  Frames <- SmallFrames
  None = None
  MaxQueued = 1
  T200Count = 2
  N200 = 2
  N200Est = 1
  ReleaseDelay = 1
  Lag = 0
  InMsgMax = 1
  ActLengthMax = 1
CHECK_DEADLOCK FALSE
INVARIANTS TypeOK ContentionHasMessage RetriesBounded WaitIsSupervised
