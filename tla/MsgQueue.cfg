CONSTANTS
  t1 = t1
  t2 = t2
  t3 = t3
  r1 = r1
  r2 = r2
  w1 = w1
  None = None
  Thread = {t1, t2, t3}
  ReaderEnd = {r1, r2}
  WriterEnd = {w1}
  May <- Roles
  Flags <- Kinds
  MaxNumMsg = 1
  MaxWrites = 2
  MaxHandles <- Opens
SPECIFICATION Spec
SYMMETRY EndSym
CHECK_DEADLOCK FALSE
INVARIANTS QueueSound EachMessageOnce NoSleeper EndKept NobodyStranded
