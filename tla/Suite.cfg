SPECIFICATION Spec
CONSTANTS
  Modules <- Small
  Arguments <- CommandLines
  Junk = Junk
  WordSize = 4096
INVARIANTS OnlyAskedRun AllAskedRun ReportIsTrue
