\* One process, every fault, the operations of CautiousOps.
SPECIFICATION Spec
CONSTANTS
  None = None
  t1 = t1  t2 = t2  w1 = w1  w2 = w2  w3 = w3  p1 = p1  p2 = p2  j1 = j1  j2 = j2  j3 = j3
  Tasks = {t1, t2}
  Workstations = {w1, w2, w3}
  Procs = {p1}
  Jobs = {j1, j2}
  DependsOn <- Chained
  MaxRetry <- OneRetry
  ZombieLimit = 2
  StartupLimit = 2
  AutoResumeCap = 1
  MaxConcurrent = 2
  DailyLimit = 2
  Absent = {w3}
  Operator = {"nurture", "disable", "probe", "add", "delete", "force_delete"}
  Disturbances = {"crash", "raise", "locked"}
  Budget = 2
SYMMETRY Symmetry
INVARIANTS TypeOK RetryBudget ExclusiveClaim WorkerOwnsRows NoWorkerOutlivesPass DependencyRespected
PROPERTIES ImplementsTaskLifecycle DecisionStands
