CONSTANTS
  t1 = t1
  t2 = t2
  t3 = t3
  None = None
  Thread = {t1, t2, t3}
  Prio = {0, 1}
  FirstPrio <- Levels
  May <- Roles
  Changing = {t3}
  Half = 4
  Times = {1, 2}
  MaxLate = 1
VIEW View
SPECIFICATION FairSpec
CHECK_DEADLOCK FALSE
INVARIANTS ListsSound SleepOrdered MostUrgentRuns OnTime
PROPERTY DueLeaves
