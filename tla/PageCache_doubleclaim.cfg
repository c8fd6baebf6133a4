SPECIFICATION FairSpec
CONSTANTS
  t1 = t1
  t2 = t2
  t3 = t3
  p1 = p1
  Procs = {t1, t2, t3}
  Pages = {p1}
  NSlots = 2
  Writers = {}
  Accesses = 1
  None = None
PROPERTIES EveryMissIsFetched
CHECK_DEADLOCK FALSE
