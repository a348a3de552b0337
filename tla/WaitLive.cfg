CONSTANTS
  t1 = t1
  t2 = t2
  t3 = t3
  e1 = e1
  e2 = e2
  m1 = m1
  m2 = m2
  s1 = s1
  i1 = i1
  None = None
  Threads = {t1, t2}
  AutoEvents = {e1}
  ManualEvents = {}
  IntrEvents = {}
  Semaphores = {}
  Mutexes = {m1}
  Prio <- EqualPrio
  Waits <- LiveWaits
  Signals <- LiveSignals
  Mortal = {t1}
  MaxCount = 1
  MaxLockCount = 1
SPECIFICATION FairSpec
PROPERTIES EndedReturns TimeoutReturns
CHECK_DEADLOCK FALSE
