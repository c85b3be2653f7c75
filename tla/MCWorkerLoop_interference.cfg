\* Two attempts at one task, every page answer, and one crash, takeover, reset, edit or deletion.
SPECIFICATION Spec
CONSTANTS
  a1 = a1  a2 = a2  a3 = a3
  Attempts = {a1, a2}
  Target = 2
  MaxRound = 2
  MaxCandidates = 2
  Interference = {"die", "takeover", "full_reset", "edit_cursor", "delete"}
  Budget = 1
INVARIANTS TypeOK CountIsBacked KeptFiles
CHECK_DEADLOCK FALSE
