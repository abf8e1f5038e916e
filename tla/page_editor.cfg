CONSTANTS
  Page = {p1, d1}
  Drafts = {d1}
  MaxEdits = 2
  Foreign = {x1}
  MaxMoves = 1
  MaxFaults = 1
SPECIFICATION FairSpec
INVARIANT UnsavedIsPending
PROPERTIES NoEditIsLost EditsSettle
CHECK_DEADLOCK FALSE
