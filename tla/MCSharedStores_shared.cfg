SPECIFICATION StoresSpec
CONSTANTS
  z1 = z1
  z2 = z2
  g1 = g1
  g2 = g2
  l1 = l1
  NoZone = NoZone
  Zone = {z1, z2}
  Client = {g1, g2, l1}
  Patient = {g1, g2}
  Hits = 2
  Window = 3
  MaxOutages = 1
  r1 = r1
  r2 = r2
  w1 = w1
  NoRow = NoRow
  Caller = {r1, r2, w1}
  Switcher = {w1}
  ZoneCode = {z1, z2}
  MaxCalls = 3
  MaxFaults = 2
  A = A
  B = B
  C = C
  t1 = t1
  t2 = t2
  s1 = s1
  s2 = s2
  s3 = s3
  Trip = {t1, t2}
  Stage = {s1, s2, s3}
  TripOf <- TripOfStages
  MaxVersion = 2
  Path <- Paths
  Route <- Routes
  Omission <- Omissions
  Nothing = Nothing
  MaxStores = 3
  MaxChanges = 2
INVARIANTS
  SlidingQuota
  OnlyAttributesAreMixed
  CoveredRoutesAreFound
  EntriesAreWhole
  RepairConverges
  WakesAtReset
PROPERTIES
  KeepsQuota
  MemoryKeepsQuota
  KnownStays
  UndisturbedCallsAgree
CHECK_DEADLOCK FALSE
