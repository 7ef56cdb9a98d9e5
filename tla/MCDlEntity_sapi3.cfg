\* SAPI 3 on SDCCH under any frame of SmallFrames.
SPECIFICATION Spec
CONSTANTS
  Sapi = 3
  a = a
  rel_msg = rel_msg
  Msgs = {a}
  Segs <- Two
  Cnf = {a}
  Info = {a, rel_msg}
  ChannelRelease = {rel_msg}
  Frames <- SmallFrames
  None = None
  MaxQueued = 1
  T200Count = 2
  N200 = 2
  N200Est = 1
  ReleaseDelay = 1
  Lag = 0
  InMsgMax = 1
  ActLengthMax = 3
CHECK_DEADLOCK FALSE
INVARIANT SegmentsExist
