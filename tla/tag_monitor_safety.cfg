CONSTANTS
  s1 = s1
  s2 = s2
  Subs = {s1, s2}
  Buffer = 1
  PollModulus = 3
  HandlersMayStop = TRUE
SYMMETRY SubsSymmetry
SPECIFICATION Spec
INVARIANTS TypeOK NoSendOnClosed CountedBeforeWait StopMeansStopped InOrder
PROPERTY SelfStopIsStuck
CHECK_DEADLOCK FALSE
