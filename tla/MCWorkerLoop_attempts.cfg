\* Three attempts one after the other, every page answer, undisturbed.
SPECIFICATION FairSpec
CONSTANTS
  a1 = a1  a2 = a2  a3 = a3
  Attempts = {a1, a2, a3}
  Target = 2
  MaxRound = 2
  MaxCandidates = 2
  Interference = {}
  Budget = 0
INVARIANTS CountIsExact OutcomeKnown
PROPERTY LoopEnds
CHECK_DEADLOCK FALSE
