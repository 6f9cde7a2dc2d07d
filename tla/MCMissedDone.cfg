\* A once that executes while another rule is edited.
SPECIFICATION Spec
CONSTANTS
  r1 = r1
  r2 = r2
  r3 = r3
  Rule = {r1, r2}
  NoRule = NoRule
  MaxJobs = 2
  KeepSkipped = 1
  KeepTerminal = 3
  CooldownAfter = 1
  Kind <- OnceAndCron
  MaxRetries <- OneRetry
  Caps = {1}
  MaxPlans = 1
  MaxRollbacks = 0
  Edited = {r2}
  Environment = {}
INVARIANT MissedMeansNotExecuted
\* An instance stops when its MaxJobs rows are used up.
CHECK_DEADLOCK FALSE
