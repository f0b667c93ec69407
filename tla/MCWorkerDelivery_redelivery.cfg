SPECIFICATION FairSpec
CONSTANTS
  m1 = m1
  m2 = m2
  w1 = w1
  w2 = w2
  t1 = t1
  t2 = t2
  NoMsg = NoMsg
  Msg = {m1}
  Malformed = {}
  Worker = {w1, w2}
  Thread = {t1, t2}
  Home <- TwoProcesses
  Prefetch = 1
  MaxAttempts = 2
  MaxCalls = 2
  MaxFaults = 2
INVARIANTS
  Conservation
  AcknowledgedHasOutcome
  ExclusiveWork
PROPERTIES
  KeepsContract
  HandleReturns
  ShutdownCompletes
