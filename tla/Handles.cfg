CONSTANTS
  t1 = t1
  t2 = t2
  t3 = t3
  p1 = p1
  p2 = p2
  api1 = api1
  f = f
  n = n
  m = m
  nm = nm
  None = None
  Thread = {t1, t2}
  Proc = {p1}
  Obj = {api1, f, n, m}
  NameOf <- Names
  Class <- Classes
  PreClosing = {api1, n, m}
  Multi = {n}
  Choices <- OneKind
  NumSlots = 2
  PageSize = 1
  MaxHandles = 2
  MaxRevived = 1
  MaxLeaked = 1
SPECIFICATION FairSpec
CHECK_DEADLOCK FALSE
INVARIANTS CountsExact NoUseAfterFree NamesExact PreClosedOnce ClosedTableEmpty
PROPERTY Reclaimed
