CONSTANTS
  t1 = t1
  t2 = t2
  t3 = t3
  c1 = c1
  c2 = c2
  None = None
  Threads = {t1, t2, t3}
  Crits = {c1}
  UserCS = {c1}
  BasePrio <- HighMidLow
  Prios = {}
  LowestPrio = 2
  Killable = {t2}
  Sleepers = {t1}
  MaxDepth = 1
  CSIndex <- OneIndex
SPECIFICATION Spec
CHECK_DEADLOCK FALSE
INVARIANTS IndInv WaitersFound StealAssertions ListedPrioCurrent
