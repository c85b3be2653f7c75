\* One process, every fault and the operations that keep the rows: what must happen happens.
SPECIFICATION FairSpec
CONSTANTS
  None = None
  t1 = t1  t2 = t2  w1 = w1  w2 = w2  w3 = w3  p1 = p1  p2 = p2  j1 = j1  j2 = j2  j3 = j3
  Tasks = {t1, t2}
  Workstations = {w1}
  Procs = {p1}
  Jobs = {j1, j2}
  DependsOn <- Independent
  MaxRetry <- OneRetry
  ZombieLimit = 2
  StartupLimit = 2
  AutoResumeCap = 1
  MaxConcurrent = 1
  DailyLimit = 1
  Absent = {}
  Operator = {"resume", "delete", "revive", "login", "no_access"}
  Disturbances = {"crash", "raise", "locked", "midnight"}
  Budget = 1
PROPERTIES RunningEnds StationReturns AttemptsEnd PendingIsClaimed
