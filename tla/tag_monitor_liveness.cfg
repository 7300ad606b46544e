CONSTANTS
  s1 = s1
  s2 = s2
  Subs = {s1, s2}
  Buffer = 1
  PollModulus = 1
  HandlersMayStop = FALSE
SPECIFICATION FairSpec
PROPERTIES CloseReturns StopReturnsAlways CloseReleasesEveryStop ChannelEnds
CHECK_DEADLOCK FALSE
