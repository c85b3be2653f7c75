\* One workstation, careful operators: does a launch find its profile free?
SPECIFICATION Spec
CONSTANTS
  None = None
  w1 = w1  w2 = w2  d1 = d1  d2 = d2  s1 = s1  s2 = s2  r1 = r1
  Workstations = {w1}
  Threads = {d1, d2}
  Sessions = {s1, s2}
  Requests = {r1}
  Longer <- Apart
  Careful = TRUE
  Queue = 1
PROPERTY NothingHoldsTheProfile
