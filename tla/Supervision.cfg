SPECIFICATION FairSpec
CONSTANTS
  Owners = {"server", "sidecar"}
  MaxPid = 4
  MaxSessions = 2
  MaxCrashes = 2
INVARIANTS RunningIsWatched BreakerIsExact
PROPERTIES StopIsFinal KeepsItsOwnServer DeadChildIsReplaced
CHECK_DEADLOCK FALSE
