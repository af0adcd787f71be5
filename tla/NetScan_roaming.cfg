SPECIFICATION Spec
CONSTANTS
  m1 = m1
  m2 = m2
  m3 = m3
  a1 = a1
  a2 = a2
  a3 = a3
  Macs = {m1, m2}
  Ips = {a1, a2}
  Durations = {1}
  MaxTime = 4
  MaxReport = 1
  Roaming = TRUE
INVARIANTS
  AssertionsHold
CHECK_DEADLOCK FALSE
