\* SAPI 3: the release has to wait for an acknowledgement.
SPECIFICATION FairSpec
CONSTANTS
  Sapi = 3
  a = a
  rel_msg = rel_msg
  Msgs = {a}
  Segs <- One
  Cnf = {a}
  Info = {a, rel_msg}
  ChannelRelease = {rel_msg}
  Frames <- FewFrames
  None = None
  MaxQueued = 1
  T200Count = 2
  N200 = 1
  N200Est = 1
  ReleaseDelay = 1
  Lag = 0
  InMsgMax = 1
  ActLengthMax = 1
CHECK_DEADLOCK FALSE
PROPERTIES WaitingReleaseIsSent
