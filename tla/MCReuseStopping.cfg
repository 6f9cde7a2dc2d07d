SPECIFICATION Spec
CONSTANTS
  d1 = d1
  d2 = d2
  l1 = l1
  l2 = l2
  Profile = {d1}
  Launcher = {l1, l2}
  NoProfile = NoProfile
  MaxPids = 2
  Environment = {}
PROPERTIES
  SuccessIsNotStopping
