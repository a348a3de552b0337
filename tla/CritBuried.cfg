CONSTANTS
  t1 = t1
  t2 = t2
  t3 = t3
  c1 = c1
  c2 = c2
  None = None
  Threads = {t1, t2}
  Crits = {c1}
  UserCS = {c1}
  BasePrio <- TwoEqual
  Prios = {}
  LowestPrio = 2
  Killable = {t1, t2}
  Sleepers = {t1, t2}
  MaxDepth = 1
  CSIndex <- OneIndex
SPECIFICATION Spec
CHECK_DEADLOCK FALSE
INVARIANT BuriedOwnsNothingWanted
