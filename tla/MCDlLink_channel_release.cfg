\* The network sends CHANNEL RELEASE and RR asks for the release as well.
SPECIFICATION FairLinkSpec
CONSTANTS
  Sapi = 0
  est = est
  m1 = m1
  m2 = m2
  d1 = d1
  d2 = d2
  crel = crel
  Msgs = {est, m1, m2}
  Segs <- TwoThenOne
  Cnf = {m1}
  Info = {est, m1, m2, d1, d2, crel}
  ChannelRelease = {crel}
  Frames <- NoFrames
  None = None
  MaxQueued = 2
  T200Count = 2
  N200 = 3
  N200Est = 1
  ReleaseDelay = 1
  Lag = 0
  InMsgMax = 2
  ActLengthMax = 3
  EstMsg = est
  Uplink0 <- SendOne
  Down <- DownClose
  DownFrames <- CloseFrames
  DownMax = 1
  LateAnswers = FALSE
  NetPolls = FALSE
  NetCloses = FALSE
  RRCloses = TRUE
CHECK_DEADLOCK FALSE
INVARIANTS DiscIsRepeated
