SPECIFICATION Spec
CONSTANTS
  Hosts = {cloud, custom}
  Unset = Unset
  SavedKeep = {TRUE}
  MaxEdits = 1
  MaxDials = 2
  MaxSignIns = 0
INVARIANT LinkFollowsHost
CHECK_DEADLOCK FALSE
