SPECIFICATION Spec
CONSTANTS
  t1 = t1
  t2 = t2
  t3 = t3
  NoRow = NoRow
  Thread = {t1, t2}
  ColdAfter = 1
  HotTTL = 4
  WarmTTL = 2
  MaxSlots = 1
  MaxCalls = 3
  MaxFaults = 1
SYMMETRY Symmetry
INVARIANTS
  SlotsInUse
  TrustedSearchIsServed
  RepairIsServed
  SeatMapExpires
CHECK_DEADLOCK FALSE
