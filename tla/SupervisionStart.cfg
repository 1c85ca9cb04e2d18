SPECIFICATION Spec
CONSTANTS
  Owners = {"server"}
  MaxPid = 4
  MaxSessions = 2
  MaxCrashes = 2
INVARIANTS StartedIsWatched
CHECK_DEADLOCK FALSE
