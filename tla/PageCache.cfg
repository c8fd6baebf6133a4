SPECIFICATION FairSpec
CONSTANTS
  t1 = t1
  t2 = t2
  t3 = t3
  p1 = p1
  p2 = p2
  Procs = {t1, t2, t3}
  Pages = {p1, p2}
  NSlots = 1
  Writers = {t1}
  Accesses = 2
  None = None
INVARIANTS TypeOK HeldSlotIsMine NoLostWrite
PROPERTIES AcquireReturns
CHECK_DEADLOCK FALSE
