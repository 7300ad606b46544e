CONSTANTS
  a1 = a1
  a2 = a2
  k0 = k0
  k1 = k1
  k2 = k2
  Callers <- Callers2
  Sessions <- Sessions2
  NoSession = NoSession
  Retries <- Retries4
  ResetAt = 2
SPECIFICATION FairSpec
INVARIANTS TypeOK OneSession EffectsBounded
PROPERTIES ClosedForCause SlotSpec EveryCallReturns StuckAfterClose
