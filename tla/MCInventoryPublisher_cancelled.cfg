SPECIFICATION Spec
CONSTANTS
  c1 = c1
  c2 = c2
  c3 = c3
  j1 = j1
  j2 = j2
  j3 = j3
  NoOne = NoOne
  NoJob = NoJob
  Caller = {c1, c2}
  Job = {j1, j2}
  MaxCalls = 3
  MaxCancels = 1
  MaxBreaks = 1
INVARIANTS
  ConfirmedIsTaken
CHECK_DEADLOCK FALSE
