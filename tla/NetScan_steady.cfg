SPECIFICATION Spec
CONSTANTS
  m1 = m1
  m2 = m2
  m3 = m3
  a1 = a1
  a2 = a2
  a3 = a3
  Macs = {m1, m2}
  Ips = {a1, a2, a3}
  Durations = {1}
  MaxTime = 7
  MaxReport = 2
  Roaming = FALSE
INVARIANTS
  AssertionsHold
  OpenIpLeadsHome
  AddressesAreReported
CHECK_DEADLOCK FALSE
