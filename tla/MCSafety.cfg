SPECIFICATION Spec
CONSTANTS
  r1 = r1
  r2 = r2
  r3 = r3
  Rule = {r1, r2}
  NoRule = NoRule
  MaxJobs = 2
  KeepSkipped = 1
  KeepTerminal = 1
  CooldownAfter = 2
  Kind <- CronAndEvent
  MaxRetries <- OneRetry
  Caps = {1}
  MaxPlans = 1
  MaxRollbacks = 0
  Edited = {r1}
  Environment = {"cancel", "test", "stop", "crash", "refresh", "stale"}
INVARIANTS
  TypeOK
  LockIsExact
  SlotAccounting
  PendingRowHasOwner
  AlertTruth
  NoRetryOverZombie
  RetryIsAllowed
  StopQuiesces
PROPERTIES
  ImplementsLifecycle
