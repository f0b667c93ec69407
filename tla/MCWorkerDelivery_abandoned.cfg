SPECIFICATION FairSpec
CONSTANTS
  m1 = m1
  m2 = m2
  w1 = w1
  w2 = w2
  t1 = t1
  t2 = t2
  NoMsg = NoMsg
  Msg = {m1}
  Malformed = {}
  Worker = {w1}
  Thread = {t1, t2}
  Home <- OneProcess
  Prefetch = 1
  MaxAttempts = 2
  MaxCalls = 2
  MaxFaults = 0
PROPERTY FailedDeliveriesContinue
