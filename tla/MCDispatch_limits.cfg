\* One worker at a time, two workstations and two tasks, and new days while workers run.
SPECIFICATION Spec
CONSTANTS
  None = None
  t1 = t1  t2 = t2  w1 = w1  w2 = w2  w3 = w3  p1 = p1  p2 = p2  j1 = j1  j2 = j2  j3 = j3
  Tasks = {t1, t2}
  Workstations = {w1, w2}
  Procs = {p1}
  Jobs = {j1, j2}
  DependsOn <- Independent
  MaxRetry <- OneRetry
  ZombieLimit = 2
  StartupLimit = 2
  AutoResumeCap = 1
  MaxConcurrent = 1
  DailyLimit = 1
  Absent = {}
  Operator = {"nurture", "disable", "probe", "delete", "force_delete", "reset", "delete_ws"}
  Disturbances = {"crash", "raise", "locked", "midnight"}
  Budget = 1
SYMMETRY Symmetry
INVARIANTS DailyLimitKept ConcurrencyCap
