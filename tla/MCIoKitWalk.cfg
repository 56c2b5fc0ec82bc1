SPECIFICATION Spec
CONSTANTS
  m1 = m1 m2 = m2 m3 = m3 d1 = d1 d2 = d2 d3 = d3 u1 = u1 u2 = u2
  b = b c = c hub = hub root = root
  Entries <- MCEntries
  Media = {m1, m2, m3}
  Parent <- MCParent
  NoEntry = NoEntry
  Drivers = {d1, d2, d3}
  LegacyUsb = {u1, hub}
  HostUsb = {u2}
  MaxDepth = 4
INVARIANTS TypeOK NearestUsb ReferencesBalance RegistryTakesPriority
PROPERTIES NoneMeansNone
CHECK_DEADLOCK FALSE
