SPECIFICATION SpecPatient
CONSTANTS
  NumHarts = 3
  Primary = 0
  Suite <- Mixed
  Selected = {1, 3, 201}
  TimeoutsExpire = FALSE
INVARIANTS
  PassIsEarned
  EarnedIsPass
  NoUseAfterFree
PROPERTY
  NoStaleResult
