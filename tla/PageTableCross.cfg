SPECIFICATION Spec
CONSTANTS
  E = 4
  StartLevel = 2
  MaxTables = 4
  MaxLength = 4
  MaxRegions = 1
  MaxCreates = 1
  Observed = {"room left"}
INVARIANTS
  Translates
CHECK_DEADLOCK FALSE
