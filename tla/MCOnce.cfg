SPECIFICATION Spec
CONSTANTS
  r1 = r1
  r2 = r2
  r3 = r3
  Rule = {r1, r2}
  NoRule = NoRule
  MaxJobs = 2
  KeepSkipped = 1
  KeepTerminal = 3
  CooldownAfter = 2
  Kind <- OnceAndCron
  MaxRetries <- OneRetry
  Caps = {1}
  MaxPlans = 2
  MaxRollbacks = 1
  Edited = {r1}
  Environment = {"refresh", "crash"}
INVARIANTS
  MissedHasNoWork
  CardHidesNoWork
PROPERTIES
  StaleRunIsInert
