SPECIFICATION LiveSpec
CONSTANTS
  Calls = {c1, c2}
  Ids = {x}
  None = None
  NoId = NoId
INVARIANTS OneAnswer CancelHitsItsOwner InFlightIsExact ArrivalOrder
PROPERTIES KeepsContract EveryCallAnswered
CHECK_DEADLOCK FALSE
