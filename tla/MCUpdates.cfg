\* A manifest check or an installation overlaps a transition.
SPECIFICATION Spec
CONSTANTS
  v1 = v1
  v2 = v2
  c1 = c1
  c2 = c2
  Release = {v1, v2}
  Base = Base
  None = None
  Call = {c1, c2}
  CrashThreshold = 3
  MaxReleases = 3
  MaxTransitions = 3
INVARIANT EveryTransitionRecorded
\* An instance stops when its transitions are used up.
CHECK_DEADLOCK FALSE
