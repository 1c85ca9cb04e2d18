SPECIFICATION Spec
CONSTANTS
  Editors = {e1, e2}
  Builds = {b1, b2}
  Corrupt = corrupt
  Nothing = nothing
  MaxAttempts = 2
SYMMETRY Symmetry
INVARIANT MarkerTellsTheTruth
PROPERTIES OnlyOvertakenDelete ShutDownStaysDown KeepsCache
CHECK_DEADLOCK FALSE
