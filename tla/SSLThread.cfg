SPECIFICATION FairSpec
CONSTANTS
  t1 = t1
  t2 = t2
  t3 = t3
  Threads = {t1, t2, t3}
  Nobody = Nobody
  MaxInstances = 2
INVARIANTS
  TypeOK
  UsableWhileLive
  OneAtATime
  CountIsExact
PROPERTIES
  CallsReturn
