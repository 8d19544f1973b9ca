SPECIFICATION Spec
CONSTANTS
  NumHarts = 3
  Primary = 0
  Suite <- AllAll
  Selected = {3, 4}
  TimeoutsExpire = TRUE
INVARIANTS PassIsEarned
