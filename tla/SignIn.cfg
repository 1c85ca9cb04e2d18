CONSTANTS
    MaxFlows = 2
    MaxEvents = 2
    MaxBacklog = 1
    MaxPolls = 1
SPECIFICATION FairSpec
INVARIANTS SlotFollowsMode
CHECK_DEADLOCK FALSE
PROPERTIES EverySignInSettles
