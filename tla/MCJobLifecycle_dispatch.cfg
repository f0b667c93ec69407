SPECIFICATION LifecycleFairSpec
CONSTANTS
  h1 = h1
  h2 = h2
  j1 = j1
  j2 = j2
  j3 = j3
  j4 = j4
  s1 = s1
  x1 = x1
  x2 = x2
  r1 = r1
  r2 = r2
  NoOne = NoOne
  NoJob = NoJob
  NoExec = NoExec
  Caller = {h1, h2}
  Job = {j1, j2, j3, j4}
  Event <- MixedChanges
  Inactive <- DormantItem
  Slot = {}
  Exec = {}
  MaxAttempts = 2
  MaxCalls = 2
  MaxCancels = 1
  MaxBreaks = 2
  MaxFaults = 1
INVARIANTS
  ClaimsAreHeld
  PublishedIsRecorded
  ConfirmedUnlessCancelled
  CollapsedIsRecorded
PROPERTIES
  RequestAnswered
CHECK_DEADLOCK FALSE
