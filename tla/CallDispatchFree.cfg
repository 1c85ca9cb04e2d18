SPECIFICATION Spec
CONSTANTS
  Calls = {c1}
  Ids = {x}
  None = None
  NoId = NoId
INVARIANT NoUseAfterFree
CHECK_DEADLOCK FALSE
