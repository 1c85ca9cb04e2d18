SPECIFICATION FairSpec
CONSTANTS
  Hosts = {cloud, custom}
  Unset = Unset
  SavedKeep = {TRUE, FALSE}
  MaxEdits = 1
  MaxDials = 2
  MaxSignIns = 1
INVARIANTS LastSubmissionWins PushedHostIsDialled
PROPERTY DisconnectIsCarriedOut
CHECK_DEADLOCK FALSE
