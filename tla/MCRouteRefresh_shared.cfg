SPECIFICATION RefreshFairSpec
CONSTANTS
  scheduler = scheduler
  s1 = s1
  x1 = x1
  x2 = x2
  r1 = r1
  NoOne = NoOne
  NoJob = NoJob
  NoExec = NoExec
  Caller = {scheduler}
  Scheduler = scheduler
  Job <- PeriodicJob
  Event = {}
  Inactive = {}
  Slot = {s1}
  Exec = {x1, x2}
  MaxAttempts = 2
  MaxCalls = 0
  MaxCancels = 0
  MaxBreaks = 1
  MaxFaults = 1
  Route = {r1}
  Operator <- Operators
  Listed = {r1}
  MaxStamp = 2
INVARIANTS
  CompletedIsStored
  NoRepublication
  CompletedIsOutdated
PROPERTIES
  KeepsContract
  ListedIsRefreshed
CHECK_DEADLOCK FALSE
