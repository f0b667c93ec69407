SPECIFICATION LifecycleSpec
CONSTANTS
  h1 = h1
  h2 = h2
  j1 = j1
  j2 = j2
  j3 = j3
  j4 = j4
  s1 = s1
  x1 = x1
  x2 = x2
  r1 = r1
  r2 = r2
  NoOne = NoOne
  NoJob = NoJob
  NoExec = NoExec
  Caller = {h1}
  Job = {j1}
  Event <- OneChange
  Inactive <- NoItems
  Slot = {s1}
  Exec = {x1}
  MaxAttempts = 2
  MaxCalls = 1
  MaxCancels = 0
  MaxBreaks = 0
  MaxFaults = 0
PROPERTIES
  CompletedIsFinal
CHECK_DEADLOCK FALSE
