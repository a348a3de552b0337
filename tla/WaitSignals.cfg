CONSTANTS
  t1 = t1
  t2 = t2
  t3 = t3
  e1 = e1
  e2 = e2
  m1 = m1
  m2 = m2
  s1 = s1
  i1 = i1
  None = None
  Threads = {t1, t2, t3}
  AutoEvents = {e2}
  ManualEvents = {e1}
  IntrEvents = {}
  Semaphores = {s1}
  Mutexes = {}
  Prio <- EqualPrio
  Waits <- SignalWaits
  Signals <- SignalSignals
  Mortal = {}
  MaxCount = 2
  MaxLockCount = 1
SPECIFICATION Spec
INVARIANTS CountsSound WaitersQueued EndsCleanly BlockedNotRunnable
PROPERTIES ImplementsService
