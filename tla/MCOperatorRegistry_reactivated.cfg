SPECIFICATION RegistrySpec
CONSTANTS
  r1 = r1
  r2 = r2
  s1 = s1
  z1 = z1
  z2 = z2
  NoRow = NoRow
  Caller = {r1, s1}
  Switcher = {s1}
  ZoneCode = {z1, z2}
  MaxCalls = 4
  MaxFaults = 0
PROPERTY RegisterPreservesStatus
CHECK_DEADLOCK FALSE
