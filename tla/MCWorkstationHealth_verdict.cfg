\* The verdict about the named workstation reaches another one.
SPECIFICATION Spec
CONSTANTS
  None = None
  w1 = w1  w2 = w2
  Workstations = {w1, w2}
  MaxStrikes = 1
  ProbeTiers = 1
  ConsecutiveLimit = 2
  OnBusyRows = FALSE
PROPERTIES ReturnsWhatItProbed
