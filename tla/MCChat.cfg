SPECIFICATION Spec
CONSTANTS
  w1 = w1
  Window = {w1}
  Conversation = {1, 2}
  Request = {1, 2}
  None = None
  MaxRuns = 2
  MaxCancels = 1
  CacheSize = 0
  KeepRows = 1
  Faults = {"persist", "crash", "delete"}
INVARIANTS
  TypeOK
  RegistryExact
  RequestWorksOnce
  LiveRowKept
  DestroyedWindowAborts
  CompletedRowHasAnswer
PROPERTIES
  StopsAsAsked
  NoDispatchAfterAbort
  TasksEnd
CHECK_DEADLOCK FALSE
