CONSTANTS
  u1 = u1
  u2 = u2
  s1 = s1
  s2 = s2
  v1 = v1
  v2 = v2
  Users = {u1, u2}
  Sessions = {s1, s2}
  SessionOf <- OwnSession
  OpsOf <- AllAndSet
  Values = {v1, v2}
  NoValue = NoValue
  NoOp = NoOp
SPECIFICATION FairSpec
INVARIANTS TypeOK InFrame
PROPERTIES AttributeSpec CallReturns
CHECK_DEADLOCK FALSE
