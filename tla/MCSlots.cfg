SPECIFICATION FairSpec
CONSTANTS
  r1 = r1
  r2 = r2
  r3 = r3
  Rule = {r1, r2, r3}
  NoRule = NoRule
  MaxJobs = 3
  KeepSkipped = 1
  KeepTerminal = 3
  CooldownAfter = 3
  Kind <- ThreeEventRules
  MaxRetries <- RetryFirst
  Caps = {1, 2}
  MaxPlans = 1
  MaxRollbacks = 0
  Edited = {}
  Environment = {}
INVARIANTS
  NoStrandedWaiter
PROPERTIES
  ExecutionsEnd
  LocksReleased
