\* Two workstations, three strikes, two tiers of probes, and every operation.
SPECIFICATION FairSpec
CONSTANTS
  None = None
  w1 = w1  w2 = w2
  Workstations = {w1, w2}
  MaxStrikes = 3
  ProbeTiers = 2
  ConsecutiveLimit = 2
  OnBusyRows = FALSE
INVARIANTS TypeOK 
PROPERTIES ImplementsLifecycle ProbesEnd
