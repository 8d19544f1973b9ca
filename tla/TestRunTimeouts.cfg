SPECIFICATION SpecTimeouts
CONSTANTS
  NumHarts = 3
  Primary = 0
  Suite <- Late
  Selected = {1, 3, 201}
  TimeoutsExpire = TRUE
INVARIANT
  PrimaryResultCounts
PROPERTY
  Termination
