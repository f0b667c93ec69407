SPECIFICATION ServiceSpec
CONSTANTS
  r1 = r1
  r2 = r2
  o1 = o1
  o2 = o2
  o3 = o3
  t1 = t1
  NoTrip = NoTrip
  NoAsk = NoAsk
  Request = {r1, r2}
  Operator = {o1, o2, o3}
  Listings <- OrbitLists
  MaxHits = 2
  SeatMapOperator = {o1, o2}
  Trip = {t1}
  MaxTime = 2
  MaxCalls = 3
  MaxRemovals = 1
  MaxFaults = 1
SYMMETRY Symmetry
INVARIANTS
  StableOperatorsAreServed
  MarkedDayHasDocument
  NoCallerIsLeft
  RemovedIsNotServed
CHECK_DEADLOCK FALSE
