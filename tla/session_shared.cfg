CONSTANTS
  u1 = u1
  u2 = u2
  s1 = s1
  s2 = s2
  v1 = v1
  v2 = v2
  Users = {u1, u2}
  Sessions = {s1}
  SessionOf <- SharedSession
  OpsOf <- AllAndSet
  Values = {v1, v2}
  NoValue = NoValue
  NoOp = NoOp
SPECIFICATION Spec
INVARIANT OwnReply
CHECK_DEADLOCK FALSE
