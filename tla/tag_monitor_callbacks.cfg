CONSTANTS
  s1 = s1
  s2 = s2
  Subs = {s1}
  Buffer = 1
  PollModulus = 1
  HandlersMayStop = FALSE
SPECIFICATION FairSpec
PROPERTY PollsContinue
CHECK_DEADLOCK FALSE
