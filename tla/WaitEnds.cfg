CONSTANTS
  t1 = t1
  t2 = t2
  t3 = t3
  e1 = e1
  e2 = e2
  m1 = m1
  m2 = m2
  s1 = s1
  i1 = i1
  None = None
  Threads = {t1, t2, t3}
  AutoEvents = {}
  ManualEvents = {}
  IntrEvents = {i1}
  Semaphores = {}
  Mutexes = {m1}
  Prio <- RankedPrio
  Waits <- EndWaits
  Signals <- EndSignals
  Mortal = {t2}
  MaxCount = 1
  MaxLockCount = 2
SPECIFICATION Spec
INVARIANTS WaitersQueued MutexSound IntrProxyCurrent
PROPERTIES ImplementsService
CHECK_DEADLOCK FALSE
