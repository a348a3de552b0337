CONSTANTS
  t1 = t1
  t2 = t2
  t3 = t3
  c1 = c1
  c2 = c2
  None = None
  Threads = {t1, t2}
  Crits = {c1, c2}
  UserCS = {}
  BasePrio <- HighLow
  Prios = {0}
  LowestPrio = 2
  Killable = {}
  Sleepers = {t1}
  MaxDepth = 2
  CSIndex <- TwoIndex
SPECIFICATION Spec
CHECK_DEADLOCK TRUE
INVARIANTS MutualExclusion OwnedListExact NoCircularWait HighestPriorityRuns
PROPERTIES ImplementsLock
