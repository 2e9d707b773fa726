SPECIFICATION Spec
CONSTANTS
  Writers = {w1, w2}
  Readers = {r1, r2}
  NoRow = NoRow
  None = None
  MaxGeneration = 2
  MaxCrashes = 2
  Orderly = {"derive", "remove", "quarantine", "deleted", "eras"}
INVARIANTS UsersHaveTree
PROPERTIES WorkStays MarksSurvive
